---- MODULE Spec2Model ----
(***************************************************************************)
(* Model of the streaming Community Notes aggregator of                    *)
(* scripts/03_layer3_community_notes.py (the snowflake decoder             *)
(* _tweet_id_to_timestamp_ms, the chunked pass compute_monthly_metrics,    *)
(* summarize_pre_post and main), and of the pre/post comparators of        *)
(* scripts 01_layer1_trends_analysis.py, 06_robustness_checks.py and       *)
(* 07_effect_sizes.py on one monthly table.                                *)
(*                                                                         *)
(* Number representation.  TLC integers are 32 bits wide, the program's    *)
(* are 64 bits wide, so every 64-bit quantity is kept exactly, in limbs:   *)
(*   - an int64 count of milliseconds is a record [d, ms] that stands for  *)
(*     d * MsPerDay + ms, with 0 <= ms < MsPerDay (d may be negative);     *)
(*   - a 64-bit snowflake id is a record [t1, t0, low] that stands for the *)
(*     bit pattern (t1 * 2^21 + t0) * 2^22 + low, with t1, t0 < 2^21 and   *)
(*     low < 2^22; as an int64 it is negative exactly when t1 >= 2^20.     *)
(***************************************************************************)
EXTENDS Integers, Sequences, FiniteSets, TLC

VARIABLES
    \* ---- compute_monthly_metrics: input and reader position
    rows,                       \* the data rows of notes_csv, in file order
    chunksize,                  \* the chunksize argument
    next_row,                   \* number of rows the reader has handed out
    pc,                         \* "loop" | "returned" | "raised"
    \* ---- compute_monthly_metrics: accumulators (lines 130-142)
    month_note_counts,
    month_authors,
    all_authors,
    lang_note_counts,
    lang_authors,
    earliest_note_ms_by_tweet,
    total_rows,
    dropped_rows,
    \* ---- compute_monthly_metrics: results (lines 201-248)
    df_first,
    monthly,
    totals,
    lang_df,
    \* ---- _tweet_id_to_timestamp_ms applied to one id
    tweet_id_arr,               \* the id handed to the decoder
    tweet_ms,                   \* what the decoder returned, or NotRun
    \* ---- the Notes_per_Author column of one row of the monthly table
    npa_in,                     \* [Notes, Active_Authors] of the row
    npa_out,                    \* the row's Notes_per_Author, or NotRun
    \* ---- main of 03_layer3_community_notes.py
    notes_exists,               \* NOTES_WITH_LANG.exists()
    main_pc,                    \* "off" | "start" | "compute" | "save" |
                                \* "done" | "failed"
    prepost,                    \* what summarize_pre_post returned, or NotRun
    written,                    \* the output files written so far
    \* ---- the trend scripts 01, 06 and 07 on the table of one language
    script,                     \* "01" | "06" | "07", or "off"
    df,                         \* the rows [date, value] of the CSV
    tr_pc,                      \* "start" | "placebo" | "flags" | "done" |
                                \* "raised", or "off"
    trend_row,                  \* the result row of script 01 or 07
    placebo_results,            \* what placebo_test returned
    strongest,                  \* the flags of lines 204-213 of script 06
    pre_data,                   \* the rows pre_trend_test fits its trend on
    pre_trend,                  \* what pre_trend_test returned
    \* ---- main of run_all.py
    script_exists,              \* script_path.exists(), for each stage script
    run_pc,                     \* "loop" | "child" | "exited", or "off"
    stage_ix,                   \* position in the core and optional lists
    run_results,                \* the results dict of main
    run_log,                    \* the starts, reads, writes and exits so far
    processed,                  \* the files in data/processed
    exit_code,                  \* what sys.exit was given, or NotRun
    \* ---- the loaders of scripts 02 and 04 that fetch from OpenAlex
    fetch_stage,                \* "02" | "04", or "off"
    today,                      \* date.today(), as a day number
    cache_files,                \* the names of the files in data/raw
    country_cache,              \* OPENALEX_CACHE_JSON: its payload, or NotRun
    ld_pc,                      \* "start" | "paging" | "undp" | "loaded" |
                                \* "exited", or "off"
    selected,                   \* the payload source of the run: the cache
                                \* file read or written, or NotRun
    page,                       \* page of fetch_openalex_groupby
    groups,                     \* groups of fetch_openalex_groupby
    requested,                  \* the pages requested in this run, in order,
                                \* each with what the service answered
    net_calls,                  \* the network calls of this run so far
    stage_exit,                 \* the exit status of the stage, or NotRun
    runs_done,                  \* the runs of the stage that have ended
    cache_writes,               \* the cache files written, each with its run
    last_status                 \* the HTTP status of the last network call of
                                \* this run (0: no response), or NotRun

aggvars == <<rows, chunksize, next_row, pc, month_note_counts, month_authors,
             all_authors, lang_note_counts, lang_authors,
             earliest_note_ms_by_tweet, total_rows, dropped_rows,
             df_first, monthly, totals, lang_df>>
snowvars == <<tweet_id_arr, tweet_ms>>
npavars == <<npa_in, npa_out>>
mainvars == <<notes_exists, main_pc, prepost, written>>
trvars == <<script, df, tr_pc, trend_row, placebo_results, strongest,
            pre_data, pre_trend>>
runvars == <<script_exists, run_pc, stage_ix, run_results, run_log, processed,
             exit_code>>
fetchvars == <<fetch_stage, today, cache_files, country_cache, ld_pc, selected,
               page, groups, requested, net_calls, stage_exit, runs_done,
               cache_writes, last_status>>
vars == <<aggvars, snowvars, npavars, mainvars, trvars, runvars, fetchvars>>

\* what the steps of one part of the model leave alone
aggrest == <<snowvars, npavars, mainvars, trvars, runvars, fetchvars>>
snowrest == <<aggvars, npavars, mainvars, trvars, runvars, fetchvars>>
nparest == <<aggvars, snowvars, mainvars, trvars, runvars, fetchvars>>
mainrest == <<snowvars, npavars, trvars, runvars, fetchvars>>
trrest == <<aggvars, snowvars, npavars, mainvars, runvars, fetchvars>>
runrest == <<aggvars, snowvars, npavars, mainvars, trvars, fetchvars>>
fetchrest == <<aggvars, snowvars, npavars, mainvars, trvars, runvars>>

(***************************************************************************)
(* Values that stand for "no value": a value that may be missing is <<v>>  *)
(* when present and <<>> when missing.                                     *)
(***************************************************************************)
NA == <<>>            \* a missing field of a row (pandas NA)
NaT == <<>>           \* a timestamp that did not parse
NaN == <<>>           \* a missing float
NotRun == <<>>        \* a result that has not been computed yet
Some(v) == <<v>>

(***************************************************************************)
(* Arithmetic on the limb representations.                                 *)
(***************************************************************************)
MsPerDay == 24 * 60 * 60 * 1000
Two10 == 2^10
Two11 == 2^11
Two21 == 2^21
Two22 == 2^22
MsPerDayOdd == MsPerDay \div Two10    \* MsPerDay = 2^10 * 84375

Min2(a, b) == IF a <= b THEN a ELSE b

RECURSIVE GCD(_, _)
GCD(a, b) == IF b = 0 THEN a ELSE GCD(b, a % b)

\* int64 comparison and arithmetic on [d, ms]
MsLess(a, b) == a.d < b.d \/ (a.d = b.d /\ a.ms < b.ms)
MsLeq(a, b) == a = b \/ MsLess(a, b)
MsAdd(a, b) ==
    [d |-> a.d + b.d + ((a.ms + b.ms) \div MsPerDay),
     ms |-> (a.ms + b.ms) % MsPerDay]
MsSub(a, b) ==
    [d |-> a.d - b.d + ((a.ms - b.ms) \div MsPerDay),
     ms |-> (a.ms - b.ms) % MsPerDay]

\* the 42-bit number t1 * 2^21 + t0 as a count of milliseconds [d, ms]
LimbsToMs(t1, t0) ==
    LET q1 == t1 \div MsPerDayOdd
        r1 == t1 % MsPerDayOdd
        x == r1 * Two11 + (t0 \div Two10)
    IN  [d |-> q1 * Two11 + (x \div MsPerDayOdd),
         ms |-> (x % MsPerDayOdd) * Two10 + (t0 % Two10)]

\* a count of milliseconds 0 <= v < 2^41 as the limbs <<t1, t0>> of base 2^21
MsToLimbs(v) ==
    LET y == v.d * MsPerDayOdd + (v.ms \div Two10)
    IN  <<y \div Two11, (y % Two11) * Two10 + (v.ms % Two10)>>

(***************************************************************************)
(* Twitter/X snowflake epoch (ms): 1288834974657 = 14917 days + 6174657 ms *)
(***************************************************************************)
TWITTER_EPOCH_MS == [d |-> 14917, ms |-> 6174657]

\* ids.astype("uint64"): the same 64 bits, read as unsigned
AsUint64(id) == id

\* ids >> np.uint64(22) on the unsigned pattern: the low 22 bits fall off,
\* zeros come in at the top; the result has 42 bits, limbs <<t1, t0>>
\* (ShiftRight21 shifts by one bit less)
ShiftRight21(id) ==
    <<2 * id.t1 + ((2 * id.t0 + (id.low \div Two21)) \div Two21),
      (2 * id.t0 + (id.low \div Two21)) % Two21>>
ShiftRight22(id) == <<id.t1, id.t0>>

\* (ids >> 22).astype("int64") + TWITTER_EPOCH_MS
_tweet_id_to_timestamp_ms(tid) ==
    LET s == ShiftRight22(AsUint64(tid))
    IN  MsAdd(LimbsToMs(s[1], s[2]), TWITTER_EPOCH_MS)

\* the id with creation time c (epoch <= c, c - epoch < 2^41) and low bits lo:
\* ((c - epoch) << 22) | lo
SnowflakeOf(c, lo) ==
    LET s == MsToLimbs(MsSub(c, TWITTER_EPOCH_MS))
    IN  [t1 |-> s[1], t0 |-> s[2], low |-> lo]

(***************************************************************************)
(* Calendar: the month of a day number (days since 1970-01-01), as pandas' *)
(* dt.to_period("M").astype(str) gives it.  The string "YYYY-MM" is kept   *)
(* as the number YYYY * 100 + MM; for the four-digit years a pandas        *)
(* timestamp can hold, the order of the strings is the order of the        *)
(* numbers.                                                                *)
(***************************************************************************)
MonthOfDay(day) ==
    LET z == day + 719468
        era == z \div 146097
        doe == z - era * 146097
        yoe == (doe - (doe \div 1460) + (doe \div 36524) - (doe \div 146096)) \div 365
        doy == doe - (365 * yoe + (yoe \div 4) - (yoe \div 100))
        mp == (5 * doy + 2) \div 153
        m == IF mp < 10 THEN mp + 3 ELSE mp - 9
        y == yoe + era * 400 + (IF m <= 2 THEN 1 ELSE 0)
    IN  y * 100 + m

\* the day number of a calendar date, as pd.Timestamp / pd.to_datetime give it
DaysFromCivil(y, m, d) ==
    LET yy == IF m <= 2 THEN y - 1 ELSE y
        era == yy \div 400
        yoe == yy - era * 400
        doy == ((153 * (IF m > 2 THEN m - 3 ELSE m + 9) + 2) \div 5) + d - 1
        doe == yoe * 365 + (yoe \div 4) - (yoe \div 100) + doy
    IN  era * 146097 + doe - 719468

\* pd.to_datetime(monthly["Month"] + "-01", utc=True), as a day number
MonthStartOf(month) == DaysFromCivil(month \div 100, month % 100, 1)

(***************************************************************************)
(* Dictionaries (dict, defaultdict) are functions whose domain is the set  *)
(* of keys present.                                                        *)
(***************************************************************************)
EmptyDict == [k \in {} |-> 0]
Range(seq) == {seq[i] : i \in DOMAIN seq}
GetOr(dict, k, default) == IF k \in DOMAIN dict THEN dict[k] ELSE default

\* Series.value_counts(): key -> number of positions holding it
value_counts(keys) ==
    [k \in Range(keys) |-> Cardinality({i \in DOMAIN keys : keys[i] = k})]

\* for k, v in vc.items(): counts[k] += int(v)      (counts is a defaultdict(int))
OverwriteCounts(counts, vc) ==
    [k \in DOMAIN counts \cup DOMAIN vc |->
        IF k \in DOMAIN vc THEN vc[k] ELSE counts[k]]
AddCounts(counts, vc) ==
    [k \in DOMAIN counts \cup DOMAIN vc |-> GetOr(counts, k, 0) + GetOr(vc, k, 0)]

\* chunk.groupby(keys)["noteAuthorParticipantId"], each group's
\* sub.dropna().astype(str).unique().tolist(), as a set
GroupAuthors(keys, chunk) ==
    [k \in Range(keys) |->
        {chunk[i].noteAuthorParticipantId[1] :
            i \in {j \in DOMAIN chunk :
                      keys[j] = k /\ chunk[j].noteAuthorParticipantId # NA}}]

\* for k, sub in ...: sets[k].update(vals)          (sets is a defaultdict(set))
OverwriteSets(sets, grp) ==
    [k \in DOMAIN sets \cup DOMAIN grp |->
        IF k \in DOMAIN grp THEN grp[k] ELSE sets[k]]
UpdateSets(sets, grp) ==
    [k \in DOMAIN sets \cup DOMAIN grp |-> GetOr(sets, k, {}) \cup GetOr(grp, k, {})]

(***************************************************************************)
(* One chunk of compute_monthly_metrics (lines 151-199).                   *)
(* A row is [noteAuthorParticipantId, tweetId, date, Timestamp, language], *)
(* each field <<v>> or NA; date is a day number, Timestamp the millisecond *)
(* of the day, tweetId a snowflake [t1, t0, low].                          *)
(***************************************************************************)
\* the rows the reader hands out next: rows pos+1 .. pos+size, or what is left
NextChunk(file, pos, size) == SubSeq(file, pos + 1, Min2(pos + size, Len(file)))

\* read_csv with dtype tweetId: "int64" raises ValueError on a chunk that holds
\* a row whose tweetId is empty (or not an integer)
ReadRaises(raw) == \E i \in DOMAIN raw : raw[i].tweetId = NA

\* pd.to_datetime(date + " " + Timestamp, utc=True, errors="coerce"): the text
\* of a row parses, or does not, on its own; whole milliseconds
note_ts(r) ==
    IF r.date # NA /\ r.Timestamp # NA
    THEN Some([d |-> r.date[1], ms |-> r.Timestamp[1]])
    ELSE NaT

\* chunk.dropna(subset=["note_ts", "noteAuthorParticipantId", "tweetId"])
DropnaTimestampOnly(r) == note_ts(r) # NaT
Dropna(r) ==
    note_ts(r) # NaT /\ r.noteAuthorParticipantId # NA /\ r.tweetId # NA

\* chunk["language"].fillna("unk").astype(str)
LangOf(r) == IF r.language = NA THEN "unk" ELSE r.language[1]

\* chunk["note_ts"].dt.tz_convert(None).dt.to_period("M").astype(str)
MonthOf(r) == MonthOfDay(note_ts(r)[1].d)

\* (chunk["note_ts"].astype("int64") // 1_000_000).astype("int64")
note_ms(r) == note_ts(r)[1]

\* tmp.groupby("tweetId", sort=False)["note_ms"].min()
min_per_tweet(chunk) ==
    [tid \in {chunk[i].tweetId[1] : i \in DOMAIN chunk} |->
        LET S == {note_ms(chunk[i]) : i \in {j \in DOMAIN chunk : chunk[j].tweetId[1] = tid}}
        IN  CHOOSE m \in S : \A x \in S : MsLeq(m, x)]

\* prev = earliest.get(tid); if prev is None or ms < prev: earliest[tid] = ms
KeepLatest(earliest, mins) ==
    [tid \in DOMAIN earliest \cup DOMAIN mins |->
        IF tid \in DOMAIN mins THEN mins[tid] ELSE earliest[tid]]
KeepFirst(earliest, mins) ==
    [tid \in DOMAIN earliest \cup DOMAIN mins |->
        IF tid \in DOMAIN earliest THEN earliest[tid] ELSE mins[tid]]
MergeEarliest(earliest, mins) ==
    [tid \in DOMAIN earliest \cup DOMAIN mins |->
        IF tid \notin DOMAIN earliest THEN mins[tid]
        ELSE IF tid \in DOMAIN mins /\ MsLess(mins[tid], earliest[tid]) THEN mins[tid]
        ELSE earliest[tid]]

\* dropped_rows += before - len(chunk)
CountDroppedLastChunk(dropped, before, after) == before - after
CountDropped(dropped, before, after) == dropped + (before - after)

\* the accumulators as one record
EmptyAgg ==
    [month_note_counts |-> EmptyDict, month_authors |-> EmptyDict,
     all_authors |-> {}, lang_note_counts |-> EmptyDict,
     lang_authors |-> EmptyDict, earliest_note_ms_by_tweet |-> EmptyDict,
     total_rows |-> 0, dropped_rows |-> 0]

\* the body of "for chunk in reader" on the raw chunk raw
ProcessChunk(st, raw) ==
    LET chunk == SelectSeq(raw, Dropna)
        counted == [st EXCEPT !.total_rows = @ + Len(raw),
                              !.dropped_rows = CountDropped(@, Len(raw), Len(chunk))]
        lang == [i \in DOMAIN chunk |-> LangOf(chunk[i])]
        month == [i \in DOMAIN chunk |-> MonthOf(chunk[i])]
    IN  IF chunk = <<>> THEN counted
        ELSE [counted EXCEPT
                !.lang_note_counts = AddCounts(@, value_counts(lang)),
                !.lang_authors = UpdateSets(@, GroupAuthors(lang, chunk)),
                !.month_note_counts = AddCounts(@, value_counts(month)),
                !.month_authors = UpdateSets(@, GroupAuthors(month, chunk)),
                !.all_authors = @ \cup
                    {chunk[i].noteAuthorParticipantId[1] :
                        i \in {j \in DOMAIN chunk : chunk[j].noteAuthorParticipantId # NA}},
                !.earliest_note_ms_by_tweet = MergeEarliest(@, min_per_tweet(chunk))]

(***************************************************************************)
(* Finalization of compute_monthly_metrics (lines 201-248).                *)
(* A float that is the quotient of two integers is kept exactly, as the    *)
(* reduced fraction [num, den]; a time-to-first-note is kept as its exact  *)
(* count of milliseconds [d, ms] (the hours are that count / 3600000), and *)
(* a median as twice its value, so that the mean of the two middle values  *)
(* of an even-sized group stays a whole count of milliseconds.             *)
(***************************************************************************)
Frac(n, d) == LET g == GCD(n, d) IN [num |-> n \div g, den |-> d \div g]

\* sorted(month_note_counts.keys())
RECURSIVE SortedDescending(_)
SortedDescending(S) ==
    \* the keys from the latest to the earliest, as sorted(..., reverse=True)
    IF S = {} THEN <<>>
    ELSE LET m == CHOOSE x \in S : \A y \in S : x >= y
         IN  <<m>> \o SortedDescending(S \ {m})
RECURSIVE SortedSeq(_)
SortedSeq(S) ==
    IF S = {} THEN <<>>
    ELSE LET m == CHOOSE x \in S : \A y \in S : x <= y
         IN  <<m>> \o SortedSeq(S \ {m})

\* monthly["Notes"] / monthly["Active_Authors"].replace({0: np.nan}), one row
DivideNoReplace(notes, authors) ==
    \* float division without the replace: x / 0 is inf, 0 / 0 is NaN
    IF authors = 0
    THEN (IF notes = 0 THEN NaN ELSE Some([num |-> 1, den |-> 0]))
    ELSE Some(Frac(notes, authors))
Notes_per_Author(notes, authors) ==
    IF authors = 0 THEN NaN ELSE Some(Frac(notes, authors))

\* delta_hours = (first_note_ms - tweet_ms) / (1000 * 60 * 60), and first_month,
\* one row per key of earliest_note_ms_by_tweet (the row of the i-th key is
\* named by the key itself)
FirstNoteFrame(earliest) ==
    [tid \in DOMAIN earliest |->
        [Month |-> MonthOfDay(earliest[tid].d),
         TimeToFirstNote_hours |->
            MsSub(earliest[tid], _tweet_id_to_timestamp_ms(tid))]]

\* df_first[notna() & (TimeToFirstNote_hours >= 0)]: the rows that are kept
NonNegativeWithinAYear(delta) == delta.d >= 0 /\ delta.d < 365
NonNegative(delta) == delta.d >= 0
FilterFirst(frame) ==
    [tid \in {t \in DOMAIN frame : NonNegative(frame[t].TimeToFirstNote_hours)} |->
        frame[tid]]

\* the values of a group in ascending order
RECURSIVE SortedValues(_, _)
SortedValues(f, S) ==
    IF S = {} THEN <<>>
    ELSE LET t == CHOOSE t \in S : \A u \in S : MsLeq(f[t], f[u])
         IN  <<f[t]>> \o SortedValues(f, S \ {t})

\* Series.median(), doubled: the middle value twice, or the two middle values
LowerMedianTwice(v) ==
    \* the lower middle value alone, as median_low would give
    LET n == Len(v)
    IN  MsAdd(v[(n + 1) \div 2], v[(n + 1) \div 2])
MedianTwice(v) ==
    LET n == Len(v)
    IN  IF n % 2 = 1 THEN MsAdd(v[(n + 1) \div 2], v[(n + 1) \div 2])
        ELSE MsAdd(v[n \div 2], v[(n \div 2) + 1])

\* df_first.groupby("Month")["TimeToFirstNote_hours"].median()
first_median(frame) ==
    [m \in {frame[t].Month : t \in DOMAIN frame} |->
        MedianTwice(SortedValues(
            [t \in DOMAIN frame |-> frame[t].TimeToFirstNote_hours],
            {t \in DOMAIN frame : frame[t].Month = m}))]

\* the monthly DataFrame after the left merge with first_median
MonthlyFrame(st, medians) ==
    LET months == SortedSeq(DOMAIN st.month_note_counts)
    IN  [i \in DOMAIN months |->
            LET m == months[i]
                notes == st.month_note_counts[m]
                authors == Cardinality(GetOr(st.month_authors, m, {}))
            IN  [Month |-> m,
                 MonthStart |-> MonthStartOf(m),
                 Notes |-> notes,
                 Active_Authors |-> authors,
                 Notes_per_Author |-> Notes_per_Author(notes, authors),
                 Median_TimeToFirstNote_hours |->
                    IF m \in DOMAIN medians THEN Some(medians[m]) ELSE NaN]]

Totals(st) ==
    [total_notes |-> st.total_rows,
     total_contributors |-> Cardinality(st.all_authors),
     total_distinct_posts |-> Cardinality(DOMAIN st.earliest_note_ms_by_tweet),
     dropped_rows |-> st.dropped_rows]

\* lang_rows, one row per key of lang_note_counts
LangRows(st) ==
    [k \in DOMAIN st.lang_note_counts |->
        [Language |-> k,
         Notes |-> st.lang_note_counts[k],
         Notes_Share |-> IF st.total_rows # 0
                         THEN Some(Frac(st.lang_note_counts[k], st.total_rows))
                         ELSE NaN,
         Unique_Authors |-> Cardinality(GetOr(st.lang_authors, k, {}))]]

\* pd.DataFrame(lang_rows).sort_values("Notes", ascending=False): the sort is
\* not stable, so rows with equal Notes may come out in any order
SortedByNotesDesc(lrows) ==
    LET n == Cardinality(DOMAIN lrows)
    IN  {[i \in 1..n |-> lrows[o[i]]] :
            o \in {p \in [1..n -> DOMAIN lrows] :
                     /\ \A i, j \in 1..n : i # j => p[i] # p[j]
                     /\ \A i, j \in 1..n :
                            i < j => lrows[p[i]].Notes >= lrows[p[j]].Notes}}

\* pd.DataFrame([]) has no column "Notes": sort_values raises KeyError
SortRaises(st) == DOMAIN st.lang_note_counts = {}

(***************************************************************************)
(* The whole pass on a file, as a function of the file and the chunk size. *)
(***************************************************************************)
RECURSIVE RunChunks(_, _, _, _)
RunChunks(st, file, pos, size) ==
    IF pos >= Len(file) THEN [raised |-> FALSE, st |-> st]
    ELSE LET raw == NextChunk(file, pos, size)
         IN  IF ReadRaises(raw) THEN [raised |-> TRUE, st |-> st]
             ELSE RunChunks(ProcessChunk(st, raw), file, pos + Len(raw), size)

NoResult == [pc |-> "raised", df_first |-> NotRun, monthly |-> NotRun,
             totals |-> NotRun, lang_rows |-> NotRun]

compute_monthly_metrics(file, size) ==
    LET r == RunChunks(EmptyAgg, file, 0, size)
    IN  IF r.raised \/ SortRaises(r.st) THEN NoResult
        ELSE LET frame == FilterFirst(FirstNoteFrame(r.st.earliest_note_ms_by_tweet))
             IN  [pc |-> "returned",
                  df_first |-> frame,
                  monthly |-> MonthlyFrame(r.st, first_median(frame)),
                  totals |-> Totals(r.st),
                  lang_rows |-> LangRows(r.st)]

(***************************************************************************)
(* Bounds and inputs.                                                      *)
(***************************************************************************)
MaxRows == 3          \* the file has at most MaxRows data rows
MaxChunk == 3         \* chunksize is 1..MaxChunk
MaxCount == 7         \* Notes and Active_Authors of a row are 0..MaxCount

Row(a, t, d, ts, l) ==
    [noteAuthorParticipantId |-> a, tweetId |-> t, date |-> d,
     Timestamp |-> ts, language |-> l]

\* TweetA was created 2021-01-31 00:00:00.000, TweetB 2021-02-01 00:30:00.000,
\* TweetC 2019-04-14 00:00:00.000
TweetA == SnowflakeOf([d |-> 18658, ms |-> 0], 0)
TweetB == SnowflakeOf([d |-> 18659, ms |-> 1800000], 5)
TweetC == SnowflakeOf([d |-> 18000, ms |-> 0], 1)

\* notes of 2021-01-31 and 2021-02-01, at 00:00:00 and at 01:00:00
RowUniverse ==
    { Row(<<"a1">>, <<TweetA>>, <<18658>>, <<0>>,       <<"en">>),
      Row(<<"a2">>, <<TweetA>>, <<18658>>, <<3600000>>, NA),
      Row(<<"a1">>, <<TweetA>>, <<18659>>, <<0>>,       <<"es">>),
      Row(<<"a2">>, <<TweetC>>, <<18659>>, <<0>>,       <<"en">>),
      Row(<<"a1">>, <<TweetB>>, <<18659>>, <<3600000>>, <<"en">>),
      Row(<<"a2">>, <<TweetB>>, <<18658>>, <<3600000>>, <<"es">>),
      \* rows that dropna drops
      Row(NA,       <<TweetC>>, <<18659>>, <<3600000>>, <<"fr">>),
      Row(<<"a3">>, <<TweetA>>, NA,        <<0>>,       <<"fr">>),
      Row(<<"a3">>, <<TweetC>>, <<18658>>, NA,          NA),
      \* a row read_csv cannot read
      Row(<<"a1">>, NA,         <<18658>>, <<0>>,       <<"en">>) }

Files == UNION {[1..n -> RowUniverse] : n \in 0..MaxRows}

\* creation times from the epoch to the last one whose offset fits in 41 bits
Offset41Limit == [d |-> 25451, ms |-> 56855552]      \* 2^41 ms
CreationTimes ==
    {c \in [d : {14917, 14918, 18658, 19297, 40367, 40368},
            ms : {0, 1, 1023, 1024, 6174656, 6174657, 6174658, 63030208,
                  63030209, 86399999}] :
        /\ MsLeq(TWITTER_EPOCH_MS, c)
        /\ MsLess(MsSub(c, TWITTER_EPOCH_MS), Offset41Limit)}
LowBits == {0, 1, Two22 - 1}

(***************************************************************************)
(* compute_monthly_metrics as a state machine: one step per chunk.         *)
(***************************************************************************)
AggState ==
    [month_note_counts |-> month_note_counts, month_authors |-> month_authors,
     all_authors |-> all_authors, lang_note_counts |-> lang_note_counts,
     lang_authors |-> lang_authors,
     earliest_note_ms_by_tweet |-> earliest_note_ms_by_tweet,
     total_rows |-> total_rows, dropped_rows |-> dropped_rows]

SetAgg(st) ==
    /\ month_note_counts' = st.month_note_counts
    /\ month_authors' = st.month_authors
    /\ all_authors' = st.all_authors
    /\ lang_note_counts' = st.lang_note_counts
    /\ lang_authors' = st.lang_authors
    /\ earliest_note_ms_by_tweet' = st.earliest_note_ms_by_tweet
    /\ total_rows' = st.total_rows
    /\ dropped_rows' = st.dropped_rows

accvars == <<month_note_counts, month_authors, all_authors, lang_note_counts,
             lang_authors, earliest_note_ms_by_tweet, total_rows, dropped_rows>>
resvars == <<df_first, monthly, totals, lang_df>>

SnowIdle == tweet_id_arr = NotRun /\ tweet_ms = NotRun
NpaIdle == npa_in = NotRun /\ npa_out = NotRun
MainIdle ==
    notes_exists = TRUE /\ main_pc = "off" /\ prepost = NotRun /\ written = {}
TrendsIdle ==
    /\ script = "off" /\ df = <<>> /\ tr_pc = "off"
    /\ trend_row = NotRun /\ placebo_results = NotRun /\ strongest = NotRun
    /\ pre_data = NotRun /\ pre_trend = NotRun
RunnerIdle ==
    /\ script_exists = <<>> /\ run_pc = "off" /\ stage_ix = 0
    /\ run_results = <<>> /\ run_log = <<>> /\ processed = {}
    /\ exit_code = NotRun
FetchIdle ==
    /\ fetch_stage = "off" /\ today = 0 /\ cache_files = {}
    /\ country_cache = NotRun /\ ld_pc = "off" /\ selected = NotRun
    /\ page = 0 /\ groups = <<>> /\ requested = <<>> /\ net_calls = 0
    /\ stage_exit = NotRun /\ runs_done = 0
    /\ cache_writes = {} /\ last_status = NotRun
OthersIdle == RunnerIdle /\ FetchIdle

Init ==
    /\ rows \in Files
    /\ chunksize \in 1..MaxChunk
    /\ next_row = 0
    /\ pc = "loop"
    /\ month_note_counts = EmptyDict
    /\ month_authors = EmptyDict
    /\ all_authors = {}
    /\ lang_note_counts = EmptyDict
    /\ lang_authors = EmptyDict
    /\ earliest_note_ms_by_tweet = EmptyDict
    /\ total_rows = 0
    /\ dropped_rows = 0
    /\ df_first = NotRun /\ monthly = NotRun /\ totals = NotRun /\ lang_df = NotRun
    /\ SnowIdle
    /\ NpaIdle
    /\ MainIdle
    /\ TrendsIdle
    /\ OthersIdle

\* for chunk in reader: the chunk is read and its updates are applied
ReadAndProcessChunk ==
    /\ pc = "loop"
    /\ next_row < Len(rows)
    /\ LET raw == NextChunk(rows, next_row, chunksize)
       IN  /\ ~ReadRaises(raw)
           /\ SetAgg(ProcessChunk(AggState, raw))
           /\ next_row' = next_row + Len(raw)
    /\ UNCHANGED <<rows, chunksize, pc, resvars, aggrest>>

\* for chunk in reader: read_csv raises on the chunk, the function is left
ReadChunkRaises ==
    /\ pc = "loop"
    /\ next_row < Len(rows)
    /\ ReadRaises(NextChunk(rows, next_row, chunksize))
    /\ pc' = "raised"
    /\ UNCHANGED <<rows, chunksize, next_row, accvars, resvars, aggrest>>

\* the reader is exhausted: lines 201-248, to the return
Finalize ==
    /\ pc = "loop"
    /\ next_row = Len(rows)
    /\ ~SortRaises(AggState)
    /\ LET frame == FilterFirst(FirstNoteFrame(earliest_note_ms_by_tweet))
       IN  /\ df_first' = frame
           /\ monthly' = MonthlyFrame(AggState, first_median(frame))
    /\ totals' = Totals(AggState)
    /\ lang_df' \in SortedByNotesDesc(LangRows(AggState))
    /\ pc' = "returned"
    /\ UNCHANGED <<rows, chunksize, next_row, accvars, aggrest>>

\* the reader is exhausted and no row was kept: line 246 raises KeyError
FinalizeRaises ==
    /\ pc = "loop"
    /\ next_row = Len(rows)
    /\ SortRaises(AggState)
    /\ pc' = "raised"
    /\ UNCHANGED <<rows, chunksize, next_row, accvars, resvars, aggrest>>

Next ==
    \/ ReadAndProcessChunk
    \/ ReadChunkRaises
    \/ Finalize
    \/ FinalizeRaises

Spec == Init /\ [][Next]_vars

(***************************************************************************)
(* _tweet_id_to_timestamp_ms on one id.                                    *)
(***************************************************************************)
AggOff ==
    /\ rows = <<>> /\ chunksize = 1 /\ next_row = 0 /\ pc = "off"
    /\ month_note_counts = EmptyDict
    /\ month_authors = EmptyDict
    /\ all_authors = {}
    /\ lang_note_counts = EmptyDict
    /\ lang_authors = EmptyDict
    /\ earliest_note_ms_by_tweet = EmptyDict
    /\ total_rows = 0
    /\ dropped_rows = 0
    /\ df_first = NotRun /\ monthly = NotRun /\ totals = NotRun /\ lang_df = NotRun

InitSnowflake ==
    /\ AggOff
    /\ NpaIdle
    /\ MainIdle
    /\ TrendsIdle
    /\ OthersIdle
    /\ tweet_id_arr \in {Some(SnowflakeOf(c, lo)) : c \in CreationTimes, lo \in LowBits}
    /\ tweet_ms = NotRun

Decode ==
    /\ tweet_id_arr # NotRun
    /\ tweet_ms = NotRun
    /\ tweet_ms' = Some(_tweet_id_to_timestamp_ms(tweet_id_arr[1]))
    /\ UNCHANGED <<tweet_id_arr, snowrest>>

NextSnowflake == Decode

SpecSnowflake == InitSnowflake /\ [][NextSnowflake]_vars

(***************************************************************************)
(* The Notes_per_Author column (line 210) on one row.                      *)
(***************************************************************************)
InitNpa ==
    /\ AggOff
    /\ SnowIdle
    /\ MainIdle
    /\ TrendsIdle
    /\ OthersIdle
    /\ npa_in \in {Some(r) : r \in [Notes : 0..MaxCount, Active_Authors : 0..MaxCount]}
    /\ npa_out = NotRun

Divide ==
    /\ npa_in # NotRun
    /\ npa_out = NotRun
    /\ npa_out' = Some(Notes_per_Author(npa_in[1].Notes, npa_in[1].Active_Authors))
    /\ UNCHANGED <<npa_in, nparest>>

NextNpa == Divide

SpecNpa == InitNpa /\ [][NextNpa]_vars

(***************************************************************************)
(* summarize_pre_post and main of 03_layer3_community_notes.py.  main is   *)
(* followed from its entry to its return; between _ensure_notes_file and   *)
(* summarize_pre_post it runs the chunk loop above with the default        *)
(* chunksize.                                                              *)
(***************************************************************************)
\* pd.Timestamp("2022-11-01", tz="UTC"), as a day number
CHATGPT_BREAK == DaysFromCivil(2022, 11, 1)

\* monthly[monthly["MonthStart"] < CHATGPT_BREAK] and its complement
Layer3Pre(frame) == SelectSeq(frame, LAMBDA r : r.MonthStart < CHATGPT_BREAK)
Layer3Post(frame) == SelectSeq(frame, LAMBDA r : r.MonthStart >= CHATGPT_BREAK)

\* Series.mean() of a column of fractions, missing values skipped
RECURSIVE FracSum(_)
FracSum(fs) ==
    IF fs = <<>> THEN [num |-> 0, den |-> 1]
    ELSE LET h == Head(fs)
             t == FracSum(Tail(fs))
         IN  Frac(h.num * t.den + t.num * h.den, h.den * t.den)
ColumnMean(col) ==
    LET present == SelectSeq(col, LAMBDA v : v # NaN)
        s == FracSum([i \in DOMAIN present |-> present[i][1]])
    IN  IF present = <<>> THEN NaN ELSE Some(Frac(s.num, s.den * Len(present)))
IntColumn(part, name) ==
    [i \in DOMAIN part |-> Some([num |-> part[i][name], den |-> 1])]

\* part["Median_TimeToFirstNote_hours"].median(): the median of the monthly
\* medians that are present; the monthly medians are doubled, this is
\* quadrupled
MedianOfMedians(part) ==
    LET S == {i \in DOMAIN part : part[i].Median_TimeToFirstNote_hours # NaN}
    IN  IF S = {} THEN NaN
        ELSE Some(MedianTwice(SortedValues(
                [i \in S |-> part[i].Median_TimeToFirstNote_hours[1]], S)))

\* (post / pre - 1) * 100 on Python floats: nan when either is nan; pre = 0.0
\* raises ZeroDivisionError, see SummarizeRaises
GrowthPct(post, pre) ==
    IF post = NaN \/ pre = NaN THEN NaN
    ELSE LET n == 100 * (post[1].num * pre[1].den - pre[1].num * post[1].den)
             d == pre[1].num * post[1].den
             g == GCD(IF n < 0 THEN -n ELSE n, d)
         IN  Some([num |-> n \div g, den |-> d \div g])
\* the same on the two medians, kept as the pair that determines the quotient
TimeChangePct(post, pre) ==
    IF post = NaN \/ pre = NaN THEN NaN
    ELSE Some([post |-> post[1], pre |-> pre[1]])

PrePostValues(frame) ==
    LET pre == Layer3Pre(frame)
        post == Layer3Post(frame)
    IN  [pre_months |-> Len(pre),
         post_months |-> Len(post),
         pre_avg_monthly_notes |-> ColumnMean(IntColumn(pre, "Notes")),
         post_avg_monthly_notes |-> ColumnMean(IntColumn(post, "Notes")),
         pre_avg_active_authors |-> ColumnMean(IntColumn(pre, "Active_Authors")),
         post_avg_active_authors |-> ColumnMean(IntColumn(post, "Active_Authors")),
         pre_avg_notes_per_author |->
            ColumnMean([i \in DOMAIN pre |-> pre[i].Notes_per_Author]),
         post_avg_notes_per_author |->
            ColumnMean([i \in DOMAIN post |-> post[i].Notes_per_Author]),
         pre_median_time_to_first_note_h |-> MedianOfMedians(pre),
         post_median_time_to_first_note_h |-> MedianOfMedians(post)]

\* lines 271-274: a pre value of 0.0 makes the float division raise
SummarizeRaises(frame) ==
    LET out == PrePostValues(frame)
        zero == [num |-> 0, den |-> 1]
    IN  \/ out.pre_avg_monthly_notes = Some(zero)
        \/ out.pre_avg_active_authors = Some(zero)
        \/ out.pre_avg_notes_per_author = Some(zero)
        \/ out.pre_median_time_to_first_note_h = Some([d |-> 0, ms |-> 0])

summarize_pre_post(frame) ==
    LET out == PrePostValues(frame)
    IN  [pre_months |-> out.pre_months,
         post_months |-> out.post_months,
         pre_avg_monthly_notes |-> out.pre_avg_monthly_notes,
         post_avg_monthly_notes |-> out.post_avg_monthly_notes,
         pre_avg_active_authors |-> out.pre_avg_active_authors,
         post_avg_active_authors |-> out.post_avg_active_authors,
         pre_avg_notes_per_author |-> out.pre_avg_notes_per_author,
         post_avg_notes_per_author |-> out.post_avg_notes_per_author,
         pre_median_time_to_first_note_h |-> out.pre_median_time_to_first_note_h,
         post_median_time_to_first_note_h |-> out.post_median_time_to_first_note_h,
         raw_monthly_notes_growth_pct |->
            GrowthPct(out.post_avg_monthly_notes, out.pre_avg_monthly_notes),
         active_authors_growth_pct |->
            GrowthPct(out.post_avg_active_authors, out.pre_avg_active_authors),
         notes_per_author_growth_pct |->
            GrowthPct(out.post_avg_notes_per_author, out.pre_avg_notes_per_author),
         time_to_first_note_change_pct |->
            TimeChangePct(out.post_median_time_to_first_note_h,
                          out.pre_median_time_to_first_note_h)]

\* _ensure_notes_file(path): the path is returned when it exists, and
\* FileNotFoundError is raised when it does not
EnsureAlwaysReturns(exists) == "returned"
_ensure_notes_file(exists) == IF exists THEN "returned" ELSE "raised"

\* the files main writes: lines 400, 403, 406 and 414
OutputFiles ==
    {"real_community_notes_monthly.csv", "real_community_notes.csv",
     "real_community_notes_language.csv", "layer3_real_community_notes.png"}

\* notes of 2021-01-31, 2022-10-31, 2022-11-01 and 2022-12-01
MainRowUniverse ==
    { Row(<<"a1">>, <<TweetA>>, <<18658>>, <<0>>,       <<"en">>),
      Row(<<"a1">>, <<TweetA>>, <<19296>>, <<0>>,       <<"en">>),
      Row(<<"a2">>, <<TweetA>>, <<19297>>, <<0>>,       <<"es">>),
      Row(<<"a1">>, <<TweetB>>, <<19327>>, <<3600000>>, <<"en">>),
      Row(NA,       <<TweetC>>, <<19297>>, <<3600000>>, <<"fr">>),
      Row(<<"a1">>, NA,         <<19296>>, <<0>>,       <<"en">>) }
MainFiles == UNION {[1..n -> MainRowUniverse] : n \in 0..MaxRows}

\* the state at the entry of main; a file that does not exist has no rows
InitMain ==
    /\ notes_exists \in BOOLEAN
    /\ rows \in (IF notes_exists THEN MainFiles ELSE {<<>>})
    /\ chunksize = 200000
    /\ next_row = 0
    /\ pc = "off"
    /\ month_note_counts = EmptyDict
    /\ month_authors = EmptyDict
    /\ all_authors = {}
    /\ lang_note_counts = EmptyDict
    /\ lang_authors = EmptyDict
    /\ earliest_note_ms_by_tweet = EmptyDict
    /\ total_rows = 0
    /\ dropped_rows = 0
    /\ df_first = NotRun /\ monthly = NotRun /\ totals = NotRun /\ lang_df = NotRun
    /\ main_pc = "start"
    /\ prepost = NotRun
    /\ written = {}
    /\ SnowIdle
    /\ NpaIdle
    /\ TrendsIdle
    /\ OthersIdle

\* line 364, the file exists: compute_monthly_metrics is entered (line 371)
EnsureNotesFile ==
    /\ main_pc = "start"
    /\ _ensure_notes_file(notes_exists) = "returned"
    /\ main_pc' = "compute"
    /\ pc' = "loop"
    /\ UNCHANGED <<rows, chunksize, next_row, accvars, resvars, notes_exists,
                   prepost, written, mainrest>>

\* line 364, the file is missing: FileNotFoundError leaves main
EnsureNotesFileRaises ==
    /\ main_pc = "start"
    /\ _ensure_notes_file(notes_exists) = "raised"
    /\ main_pc' = "failed"
    /\ UNCHANGED <<aggvars, notes_exists, prepost, written, mainrest>>

\* line 371 raised: the exception leaves main
ComputeRaised ==
    /\ main_pc = "compute"
    /\ pc = "raised"
    /\ main_pc' = "failed"
    /\ UNCHANGED <<aggvars, notes_exists, prepost, written, mainrest>>

\* line 372
Summarize ==
    /\ main_pc = "compute"
    /\ pc = "returned"
    /\ ~SummarizeRaises(monthly)
    /\ prepost' = Some(summarize_pre_post(monthly))
    /\ main_pc' = "save"
    /\ UNCHANGED <<aggvars, notes_exists, written, mainrest>>

\* line 372 raised ZeroDivisionError
SummarizeRaised ==
    /\ main_pc = "compute"
    /\ pc = "returned"
    /\ SummarizeRaises(monthly)
    /\ main_pc' = "failed"
    /\ UNCHANGED <<aggvars, notes_exists, prepost, written, mainrest>>

\* lines 399-416: the three tables and the figure are written, main returns
SaveOutputs ==
    /\ main_pc = "save"
    /\ written' = OutputFiles
    /\ main_pc' = "done"
    /\ UNCHANGED <<aggvars, notes_exists, prepost, mainrest>>

NextMain ==
    \/ EnsureNotesFile
    \/ EnsureNotesFileRaises
    \/ ReadAndProcessChunk
    \/ ReadChunkRaises
    \/ Finalize
    \/ FinalizeRaises
    \/ ComputeRaised
    \/ Summarize
    \/ SummarizeRaised
    \/ SaveOutputs

SpecMain == InitMain /\ [][NextMain]_vars

(***************************************************************************)
(* The trend scripts 01_layer1_trends_analysis.py, 06_robustness_checks.py *)
(* and 07_effect_sizes.py, each on the table of one language: df is the    *)
(* sequence of its rows [date, value], date a day number and value <<v>>   *)
(* or NaN.                                                                 *)
(*                                                                         *)
(* A float is NaN, or <<[num, den]>>: a reduced quotient with den > 0, or  *)
(* num = 1 or -1 and den = 0 for +inf and -inf.                            *)
(***************************************************************************)
SFrac(n, d) ==
    LET g == GCD(IF n < 0 THEN -n ELSE n, d)
    IN  [num |-> n \div g, den |-> d \div g]
\* numpy's float64 quotient n / d of two integers, d >= 0
FloatDiv(n, d) ==
    IF d = 0
    THEN (IF n = 0 THEN NaN ELSE Some([num |-> IF n > 0 THEN 1 ELSE -1, den |-> 0]))
    ELSE Some(SFrac(n, d))
isfinite(x) == x # NaN /\ x[1].den # 0
\* x < y on floats: False when either is NaN
FloatLess(x, y) ==
    /\ x # NaN /\ y # NaN
    /\ x # y
    /\ IF x[1].den = 0 THEN x[1].num < 0
       ELSE IF y[1].den = 0 THEN y[1].num > 0
       ELSE x[1].num * y[1].den < y[1].num * x[1].den

\* round(x, ndigits), p == 10^ndigits: to the nearest, halves to the even one
RoundTo(x, p) ==
    IF ~isfinite(x) THEN x
    ELSE LET n == p * x[1].num
             d == x[1].den
             q == n \div d
             r == n % d
             t == IF 2 * r > d THEN q + 1
                  ELSE IF 2 * r < d THEN q
                  ELSE IF q % 2 = 0 THEN q ELSE q + 1
         IN  Some(SFrac(t, p))

\* Series.dropna() on the value column, and the values of a table
dropna(table) == SelectSeq(table, LAMBDA r : r.value # NaN)
ValuesOf(table) == [i \in DOMAIN table |-> table[i].value[1]]

\* the values in ascending order
RECURSIVE SortInts(_)
SortInts(v) ==
    IF v = <<>> THEN <<>>
    ELSE LET i == CHOOSE i \in DOMAIN v : \A j \in DOMAIN v : v[i] <= v[j]
         IN  <<v[i]>> \o SortInts([j \in 1..(Len(v) - 1) |->
                                      IF j < i THEN v[j] ELSE v[j + 1]])

\* Series.median() of a column without missing values: NaN when it is empty
median(v) ==
    LET s == SortInts(v)
        n == Len(v)
    IN  IF n = 0 THEN NaN
        ELSE IF n % 2 = 1 THEN Some(SFrac(s[(n + 1) \div 2], 1))
        ELSE Some(SFrac(s[n \div 2] + s[(n \div 2) + 1], 2))

\* ((post_median - pre_median) / pre_median) * 100 on float64
PctOfPost(pre_median, post_median) ==
    \* the change as a share of the post median
    IF pre_median = NaN \/ post_median = NaN THEN NaN
    ELSE LET p == pre_median[1]
             q == post_median[1]
         IN  FloatDiv(100 * (q.num * p.den - p.num * q.den), p.den * q.num)
effect_pct(pre_median, post_median) ==
    IF pre_median = NaN \/ post_median = NaN THEN NaN
    ELSE LET p == pre_median[1]
             q == post_median[1]
         IN  FloatDiv(100 * (q.num * p.den - p.num * q.den), q.den * p.num)

\* stats.mannwhitneyu(x, y, alternative='less'): the statistic, doubled, is
\* two for every pair with x > y and one for every pair with x = y.  The
\* p-value is a function of the statistic and of the two samples; it is
\* carried as the statistic it belongs to.
mannwhitneyu(x, y) ==
    [U_twice |->
        2 * Cardinality({ij \in (DOMAIN x) \X (DOMAIN y) : x[ij[1]] > y[ij[2]]})
          + Cardinality({ij \in (DOMAIN x) \X (DOMAIN y) : x[ij[1]] = y[ij[2]]}),
     n1 |-> Len(x),
     n2 |-> Len(y)]

\* OLS(...).fit(cov_type='HAC', ...) of statsmodels is not part of the
\* repository: what it returns for a design of full rank is an input, one of
\* a fit without residuals (no slope change, p-value 0/0 = nan), a fit with a
\* significant slope change upwards and a fit with a larger one downwards
FloatAdd(x, y) ==
    IF x = NaN \/ y = NaN THEN NaN
    ELSE Some(SFrac(x[1].num * y[1].den + y[1].num * x[1].den, x[1].den * y[1].den))
SegFits ==
    { [slope_pre |-> Some(SFrac(0, 1)), slope_change |-> Some(SFrac(0, 1)),
       p_slope_change_hac |-> NaN, r_squared |-> Some(SFrac(1, 1))],
      [slope_pre |-> Some(SFrac(1, 4)), slope_change |-> Some(SFrac(1, 2)),
       p_slope_change_hac |-> Some(SFrac(1, 100)), r_squared |-> Some(SFrac(9, 10))],
      [slope_pre |-> Some(SFrac(1, 4)), slope_change |-> Some(SFrac(-1, 1)),
       p_slope_change_hac |-> Some(SFrac(1, 100)), r_squared |-> Some(SFrac(1, 2))] }

\* 01, lines 111-112
break_ts == DaysFromCivil(2022, 11, 1)

\* 01, lines 115-117: series = df[lang].dropna(), pre and post
L1Pre(table) == SelectSeq(dropna(table), LAMBDA r : r.date < break_ts)
L1Post(table) == SelectSeq(dropna(table), LAMBDA r : r.date >= break_ts)

\* mannwhitneyu on an empty sample raises ValueError or, in later releases of
\* scipy, returns nan: either may happen
RankTestUndefined(pre, post) == pre = <<>> \/ post = <<>>

\* 01, lines 114-168: the result row of one language (the columns of the
\* month-to-month volatility, lines 127-136, are not carried)
analyze_trends(table, fit) ==
    LET pre == ValuesOf(L1Pre(table))
        post == ValuesOf(L1Post(table))
        pre_median == median(pre)
        post_median == median(post)
    IN  [Pre_Median |-> RoundTo(pre_median, 10),
         Post_Median |-> RoundTo(post_median, 10),
         Effect_Pct |-> RoundTo(effect_pct(pre_median, post_median), 10),
         MW_P_Value |-> IF RankTestUndefined(pre, post) THEN NaN
                        ELSE Some(mannwhitneyu(pre, post)),
         Slope_Pre |-> RoundTo(fit.slope_pre, 10000),
         Slope_Change |-> RoundTo(fit.slope_change, 10000),
         Slope_Post |-> RoundTo(FloatAdd(fit.slope_pre, fit.slope_change), 10000),
         R_Squared |-> RoundTo(fit.r_squared, 10000),
         Slope_Change_P_HAC |-> fit.p_slope_change_hac]

\* 07, lines 47-48
EffectsPre(table) ==
    dropna(SelectSeq(table, LAMBDA r : r.date < DaysFromCivil(2022, 11, 1)))
EffectsPost(table) ==
    dropna(SelectSeq(table, LAMBDA r : r.date >= DaysFromCivil(2022, 11, 1)))

\* 07, lines 42-73: the result row of one language (Cohen's d and the
\* bootstrap intervals, lines 51-55, are not carried)
analyze_trends_with_effects(table) ==
    LET pre == ValuesOf(EffectsPre(table))
        post == ValuesOf(EffectsPost(table))
        mw == mannwhitneyu(pre, post)
    IN  [pre_median |-> median(pre),
         post_median |-> median(post),
         rank_biserial_r |->
            IF RankTestUndefined(pre, post) THEN NaN
            ELSE FloatDiv(mw.n1 * mw.n2 - mw.U_twice, mw.n1 * mw.n2),
         p_value |-> IF RankTestUndefined(pre, post) THEN NaN ELSE Some(mw)]

\* 06, lines 92-102 and 106: the real break, then the default placebo breaks
placebo_breaks ==
    << DaysFromCivil(2020, 3, 1), DaysFromCivil(2021, 1, 1),
       DaysFromCivil(2021, 6, 1), DaysFromCivil(2022, 1, 1),
       DaysFromCivil(2022, 10, 1), DaysFromCivil(2022, 12, 1),
       DaysFromCivil(2023, 1, 1), DaysFromCivil(2023, 6, 1) >>
TestedBreaks == <<CHATGPT_BREAK>> \o placebo_breaks

\* 06, lines 108-109
PlaceboPostExclusive(table, break_dt) ==
    \* the rows strictly after the break
    dropna(SelectSeq(table, LAMBDA r : r.date > break_dt))
PlaceboPre(table, break_dt) ==
    dropna(SelectSeq(table, LAMBDA r : r.date < break_dt))
PlaceboPost(table, break_dt) ==
    dropna(SelectSeq(table, LAMBDA r : r.date >= break_dt))

\* 06, line 111: the breaks that get a result row
EnoughForRow(table, break_dt) ==
    Len(PlaceboPre(table, break_dt)) > 5 /\ Len(PlaceboPost(table, break_dt)) > 5

\* 06, line 113
placebo_effect(pre_median, post_median) ==
    IF FloatLess(Some(SFrac(0, 1)), pre_median)
    THEN effect_pct(pre_median, post_median)
    ELSE Some(SFrac(0, 1))

\* 06, lines 55-63: the regression is fitted unless n_pre < 12 or n_post < 12
None == <<>>
n_pre(table, break_dt) ==
    Len(SelectSeq(dropna(table), LAMBDA r : ~(r.date >= break_dt)))
n_post(table, break_dt) ==
    Len(SelectSeq(dropna(table), LAMBDA r : r.date >= break_dt))
EnoughBefore(table, break_dt) ==
    \* the guard on the observations before the break alone
    ~(n_pre(table, break_dt) < 12)
EnoughToFit(table, break_dt) ==
    ~(n_pre(table, break_dt) < 12 \/ n_post(table, break_dt) < 12)

\* 06, lines 48-83 (the level change, lines 80-81, is not carried)
_fit_segmented(table, break_dt, fit) ==
    IF ~EnoughToFit(table, break_dt) THEN None
    ELSE Some([n_pre |-> n_pre(table, break_dt),
               n_post |-> n_post(table, break_dt),
               slope_pre |-> fit.slope_pre,
               slope_change |-> fit.slope_change,
               slope_post |-> FloatAdd(fit.slope_pre, fit.slope_change),
               p_slope_change_hac |-> fit.p_slope_change_hac,
               r_squared |-> fit.r_squared])

\* 06, lines 117-133: the result row of one break (the rank test's p-value is
\* carried as the statistic it belongs to, and its flag p < 0.001 not at all)
PlaceboRow(table, break_dt, seg) ==
    LET pre == ValuesOf(PlaceboPre(table, break_dt))
        post == ValuesOf(PlaceboPost(table, break_dt))
    IN  [break_date |-> break_dt,
         is_chatgpt |-> break_dt = CHATGPT_BREAK,
         pre_median |-> median(pre),
         post_median |-> median(post),
         effect_pct |-> placebo_effect(median(pre), median(post)),
         p_value |-> Some(mannwhitneyu(pre, post)),
         its_slope_pre |-> IF seg # None THEN seg[1].slope_pre ELSE NaN,
         its_slope_change |-> IF seg # None THEN seg[1].slope_change ELSE NaN,
         its_slope_post |-> IF seg # None THEN seg[1].slope_post ELSE NaN,
         its_slope_change_p_hac |->
            IF seg # None THEN seg[1].p_slope_change_hac ELSE NaN,
         its_n_pre |-> IF seg # None THEN Some(SFrac(seg[1].n_pre, 1)) ELSE NaN,
         its_n_post |-> IF seg # None THEN Some(SFrac(seg[1].n_post, 1)) ELSE NaN,
         its_r_squared |-> IF seg # None THEN seg[1].r_squared ELSE NaN]

\* the breaks of TestedBreaks whose regression is fitted: the fits are inputs
FittedBreaks(table) ==
    {i \in DOMAIN TestedBreaks :
        EnoughForRow(table, TestedBreaks[i]) /\ EnoughToFit(table, TestedBreaks[i])}

\* the estimates of a run: one for the real break, one shared by the placebo
\* breaks before it and one shared by the placebo breaks after it
FitChoices(table) ==
    {[i \in FittedBreaks(table) |->
        IF TestedBreaks[i] = CHATGPT_BREAK THEN c
        ELSE IF TestedBreaks[i] < CHATGPT_BREAK THEN e ELSE l] :
            c \in SegFits, e \in SegFits, l \in SegFits}

\* 06, lines 86-135: fits[i] is what OLS returns for the i-th break
placebo_test(table, fits) ==
    LET tested == SelectSeq([i \in DOMAIN TestedBreaks |-> i],
                            LAMBDA i : EnoughForRow(table, TestedBreaks[i]))
    IN  [j \in DOMAIN tested |->
            LET b == TestedBreaks[tested[j]]
            IN  PlaceboRow(table, b,
                    _fit_segmented(table, b,
                        IF tested[j] \in DOMAIN fits THEN fits[tested[j]]
                        ELSE CHOOSE f \in SegFits : TRUE))]

\* Series.max(): the largest value that is present, nan when none is
FloatMax(col) ==
    LET S == {i \in DOMAIN col : col[i] # NaN}
    IN  IF S = {} THEN NaN
        ELSE col[CHOOSE i \in S : \A j \in S : ~FloatLess(col[i], col[j])]

\* 06, line 205: .iloc[0] of the rows of the real break raises when there is
\* none (and the column lookup raises when the frame has no row at all)
StrongestRaises(results) == SelectSeq(results, LAMBDA r : r.is_chatgpt) = <<>>

\* 06, lines 204-213
FloatAbs(x) ==
    IF x = NaN THEN NaN
    ELSE Some([num |-> IF x[1].num < 0 THEN -x[1].num ELSE x[1].num, den |-> x[1].den])
GreaterInMagnitude(x, y) ==
    \* abs(x) > abs(y)
    FloatLess(FloatAbs(y), FloatAbs(x))
StrictlyGreater(x, y) == FloatLess(y, x)
strongest_flags(results) ==
    LET chat_row == SelectSeq(results, LAMBDA r : r.is_chatgpt)[1]
        placebos == SelectSeq(results, LAMBDA r : ~r.is_chatgpt)
        chatgpt_effect == chat_row.effect_pct
        max_placebo == FloatMax([i \in DOMAIN placebos |-> placebos[i].effect_pct])
        chat_slope_change == chat_row.its_slope_change
        placebo_slope_max ==
            FloatMax([i \in DOMAIN placebos |-> placebos[i].its_slope_change])
    IN  [chatgpt_median_effect_pct |-> chatgpt_effect,
         max_placebo_effect_pct |-> max_placebo,
         chatgpt_median_strongest |-> StrictlyGreater(chatgpt_effect, max_placebo),
         chatgpt_its_slope_change |-> chat_slope_change,
         max_placebo_its_slope_change |-> placebo_slope_max,
         chatgpt_its_slope_strongest |->
            /\ isfinite(chat_slope_change)
            /\ isfinite(placebo_slope_max)
            /\ StrictlyGreater(chat_slope_change, placebo_slope_max)]

\* 06, line 142: the rows the trend is fitted on (no dropna here)
PreDataUpToBreak(table, break_dt) ==
    \* the rows up to and including the break
    SelectSeq(table, LAMBDA r : r.date <= break_dt)
PreData(table, break_dt) == SelectSeq(table, LAMBDA r : r.date < break_dt)

\* what OLS returns for the trend: a fit without residuals (p-value 0/0 = nan)
\* and fits with p-values below, at and above 0.05
PreTrendFits ==
    { [slope |-> Some(SFrac(0, 1)), r_squared |-> NaN, p |-> NaN],
      [slope |-> Some(SFrac(1, 4)), r_squared |-> Some(SFrac(9, 10)),
       p |-> Some(SFrac(1, 100))],
      [slope |-> Some(SFrac(1, 10)), r_squared |-> Some(SFrac(3, 10)),
       p |-> Some(SFrac(5, 100))],
      [slope |-> Some(SFrac(-1, 100)), r_squared |-> Some(SFrac(1, 100)),
       p |-> Some(SFrac(1, 2))] }
\* a missing value in the fitted column makes every estimate nan
NanFit == [slope |-> NaN, r_squared |-> NaN, p |-> NaN]

\* 06, line 163
Significant(p) == isfinite(p) /\ FloatLess(p, Some(SFrac(5, 100)))

\* 06, lines 137-164
pre_trend_test(table, break_dt, fit) ==
    LET data == PreData(table, break_dt)
        est == IF \E i \in DOMAIN data : data[i].value = NaN THEN NanFit ELSE fit
    IN  IF Len(data) < 12
        THEN [pre_slope |-> NaN, pre_r_squared |-> NaN, pre_p_value_hac |-> NaN,
              pre_trend_significant |-> FALSE]
        ELSE [pre_slope |-> est.slope,
              pre_r_squared |-> est.r_squared,
              pre_p_value_hac |-> est.p,
              pre_trend_significant |-> Significant(est.p)]

\* Monthly tables: PreLengths rows before 2022-11-01 and PostLengths rows from
\* it on, one row per month; the value is a up to the step and b after it, the
\* step is at the cutover or one month later, and one row may lack its value.
\* The long tables run from 2019-09 to 2023-11, six months before the first
\* placebo break to six months from the last one on.
MaxValue == 2         \* the values of a table are 0..MaxValue
PreLengths == {0, 1, 6, 11, 12, 13}
PostLengths == {0, 1, 6, 12, 13}
MonthDate(k) == DaysFromCivil(k \div 12, (k % 12) + 1, 1)
TrendTable(npre, npost, shift, a, b, hole) ==
    [i \in 1..(npre + npost) |->
        [date |-> MonthDate(2022 * 12 + 10 - npre + i - 1),
         value |-> IF i = hole THEN NaN
                   ELSE Some(IF i <= npre + shift THEN a ELSE b)]]
ShortTables ==
    {TrendTable(npre, npost, shift, a, b, IF h = 2 THEN 0 ELSE npre + h) :
        npre \in PreLengths, npost \in PostLengths, shift \in {0, 1},
        a \in 0..MaxValue, b \in 0..MaxValue, h \in {0, 1, 2}}
LongTables ==
    {TrendTable(38, 13, 0, a, b, 0) : a \in 0..MaxValue, b \in 0..MaxValue}
\* Tables of 13 months, 2022-04 to 2023-04, whose value changes within the
\* seven months before the cutover: a in the first three, b in the next three,
\* c in the month before the cutover and d from the cutover on.  The placebo
\* test has a result row for the cutover and for 2022-10-01.
WaveTable(a, b, c, d) ==
    [i \in 1..13 |->
        [date |-> MonthDate(2022 * 12 + 10 - 7 + i - 1),
         value |-> Some(IF i <= 3 THEN a ELSE IF i <= 6 THEN b
                        ELSE IF i = 7 THEN c ELSE d)]]
WaveTables ==
    {WaveTable(a, b, c, d) : a \in 1..MaxValue, b \in 1..MaxValue,
                             c \in 1..MaxValue, d \in 1..MaxValue}
TrendTables == ShortTables \cup LongTables \cup WaveTables

InitTrends ==
    /\ script \in {"01", "06", "07"}
    /\ df \in TrendTables
    /\ tr_pc = "start"
    /\ trend_row = NotRun /\ placebo_results = NotRun /\ strongest = NotRun
    /\ pre_data = NotRun /\ pre_trend = NotRun
    /\ AggOff
    /\ SnowIdle
    /\ NpaIdle
    /\ MainIdle
    /\ OthersIdle

\* 01, analyze_trends on one language: OLS raises on a column without values
AnalyzeTrends ==
    /\ script = "01" /\ tr_pc = "start"
    /\ dropna(df) # <<>>
    /\ \E fit \in SegFits : trend_row' = Some(analyze_trends(df, fit))
    /\ tr_pc' = "done"
    /\ UNCHANGED <<script, df, placebo_results, strongest, pre_data, pre_trend, trrest>>

AnalyzeTrendsRaises ==
    /\ script = "01" /\ tr_pc = "start"
    /\ RankTestUndefined(L1Pre(df), L1Post(df))
    /\ tr_pc' = "raised"
    /\ UNCHANGED <<script, df, trend_row, placebo_results, strongest, pre_data,
                   pre_trend, trrest>>

\* 07, analyze_trends_with_effects on one language
AnalyzeEffects ==
    /\ script = "07" /\ tr_pc = "start"
    /\ trend_row' = Some(analyze_trends_with_effects(df))
    /\ tr_pc' = "done"
    /\ UNCHANGED <<script, df, placebo_results, strongest, pre_data, pre_trend, trrest>>

AnalyzeEffectsRaises ==
    /\ script = "07" /\ tr_pc = "start"
    /\ RankTestUndefined(EffectsPre(df), EffectsPost(df))
    /\ tr_pc' = "raised"
    /\ UNCHANGED <<script, df, trend_row, placebo_results, strongest, pre_data,
                   pre_trend, trrest>>

\* 06, run_robustness on one language: line 188
PlaceboTest ==
    /\ script = "06" /\ tr_pc = "start"
    /\ \E fits \in FitChoices(df) :
          placebo_results' = Some(placebo_test(df, fits))
    /\ tr_pc' = "placebo"
    /\ UNCHANGED <<script, df, trend_row, strongest, pre_data, pre_trend, trrest>>

\* 06, lines 204-213
StrongestFlags ==
    /\ script = "06" /\ tr_pc = "placebo"
    /\ ~StrongestRaises(placebo_results[1])
    /\ strongest' = Some(strongest_flags(placebo_results[1]))
    /\ tr_pc' = "flags"
    /\ UNCHANGED <<script, df, trend_row, placebo_results, pre_data, pre_trend, trrest>>

StrongestFlagsRaises ==
    /\ script = "06" /\ tr_pc = "placebo"
    /\ StrongestRaises(placebo_results[1])
    /\ tr_pc' = "raised"
    /\ UNCHANGED <<script, df, trend_row, placebo_results, strongest, pre_data,
                   pre_trend, trrest>>

\* 06, line 224
PreTrendTest ==
    /\ script = "06" /\ tr_pc = "flags"
    /\ pre_data' = Some(PreData(df, CHATGPT_BREAK))
    /\ \E fit \in PreTrendFits : pre_trend' = Some(pre_trend_test(df, CHATGPT_BREAK, fit))
    /\ tr_pc' = "done"
    /\ UNCHANGED <<script, df, trend_row, placebo_results, strongest, trrest>>

NextTrends ==
    \/ AnalyzeTrends
    \/ AnalyzeTrendsRaises
    \/ AnalyzeEffects
    \/ AnalyzeEffectsRaises
    \/ PlaceboTest
    \/ StrongestFlags
    \/ StrongestFlagsRaises
    \/ PreTrendTest

SpecTrends == InitTrends /\ [][NextTrends]_vars

(***************************************************************************)
(* The scripts that split a table at the cutover, each run from its entry: *)
(* main of script 03, and scripts 01, 06 and 07.                           *)
(***************************************************************************)
InitPrePost == InitMain \/ InitTrends

NextPrePost ==
    \/ NextMain
    \/ NextTrends

SpecPrePost == InitPrePost /\ [][NextPrePost]_vars

(***************************************************************************)
(* main of run_all.py: the stage scripts are run one after the other, each *)
(* as a child process that the runner waits for.  A child is one step: it  *)
(* reads and writes its files in data/processed and exits.                 *)
(***************************************************************************)
\* run_all, lines 205-218
scripts ==
    << "01_layer1_trends_analysis.py", "02_layer2_bibliometrics.py",
       "03_layer3_community_notes.py", "04_layer4_stratification.py" >>
optional_scripts ==
    << "05_synthesis_visualization.py", "06_robustness_checks.py",
       "07_effect_sizes.py", "08_augmentation_divide_visual.py" >>
\* the two loops of lines 227-246, one after the other
OptionalFirst == optional_scripts \o scripts
RobustnessBeforeSynthesis ==
    scripts \o << optional_scripts[2], optional_scripts[1],
                  optional_scripts[3], optional_scripts[4] >>
StageList == scripts \o optional_scripts

\* the files of data/processed a stage writes, in the order of its to_csv calls
StageWrites(s) ==
    CASE s = "01_layer1_trends_analysis.py" -> << "real_trends_analysis.csv" >>
      [] s = "02_layer2_bibliometrics.py" -> << "real_bibliometrics.csv" >>
      [] s = "03_layer3_community_notes.py" ->
            << "real_community_notes_monthly.csv", "real_community_notes.csv",
               "real_community_notes_language.csv" >>
      [] s = "04_layer4_stratification.py" ->
            << "real_hdi_stratification.csv", "real_mooc_regional.csv" >>
      [] s = "06_robustness_checks.py" ->
            << "robustness_checks.csv", "placebo_breakpoint_analysis.csv" >>
      [] s = "07_effect_sizes.py" -> << "effect_sizes_trends.csv" >>
      [] OTHER -> << >>

\* 05, lines 52-60: the files main loads, in order; a guarded load is skipped
\* when the file does not exist, any other raises FileNotFoundError
SynthesisLoads ==
    << [file |-> "real_trends_analysis.csv", guarded |-> FALSE],
       [file |-> "real_bibliometrics.csv", guarded |-> FALSE],
       [file |-> "real_community_notes.csv", guarded |-> FALSE],
       [file |-> "real_community_notes_language.csv", guarded |-> TRUE],
       [file |-> "real_hdi_stratification.csv", guarded |-> FALSE],
       [file |-> "real_mooc_regional.csv", guarded |-> FALSE],
       [file |-> "robustness_checks.csv", guarded |-> TRUE] >>
StageLoads(s) ==
    IF s = "05_synthesis_visualization.py" THEN SynthesisLoads ELSE << >>

\* the files read from the directory disk, up to the load that raises
RECURSIVE LoadAll(_, _)
LoadAll(loads, disk) ==
    IF loads = << >> THEN [read |-> << >>, raised |-> FALSE]
    ELSE IF Head(loads).file \in disk
    THEN LET rest == LoadAll(Tail(loads), disk)
         IN  [read |-> << Head(loads).file >> \o rest.read, raised |-> rest.raised]
    ELSE IF Head(loads).guarded THEN LoadAll(Tail(loads), disk)
    ELSE [read |-> << >>, raised |-> TRUE]

Event(ev, s, f) == [ev |-> ev, stage |-> s, file |-> f]

\* run_all, lines 170-182: result.returncode == 0
run_script(returncode) == returncode = 0

\* run_all, line 256; every script has an entry once the loops are through
AnyCorePass(res) == \E i \in DOMAIN scripts : res[scripts[i]] = "PASS"
all_core_pass(res) == \A i \in DOMAIN scripts : res[scripts[i]] = "PASS"

InitRunner ==
    /\ script_exists \in [Range(StageList) -> BOOLEAN]
    /\ run_pc = "loop"
    /\ stage_ix = 1
    /\ run_results = << >>
    /\ run_log = << >>
    /\ processed = {}
    /\ exit_code = NotRun
    /\ FetchIdle
    /\ AggOff
    /\ SnowIdle
    /\ NpaIdle
    /\ MainIdle
    /\ TrendsIdle

\* lines 228-233 and 241-246, script_path.exists(): subprocess.run is called
StartStage ==
    /\ run_pc = "loop" /\ stage_ix \in DOMAIN StageList
    /\ script_exists[StageList[stage_ix]]
    /\ run_log' = Append(run_log, Event("start", StageList[stage_ix], ""))
    /\ run_pc' = "child"
    /\ UNCHANGED <<script_exists, stage_ix, run_results, processed, exit_code, runrest>>

\* lines 232-233 and 245-246: the script is not there
SkipStage ==
    /\ run_pc = "loop" /\ stage_ix \in DOMAIN StageList
    /\ ~script_exists[StageList[stage_ix]]
    /\ run_results' = [s \in DOMAIN run_results \cup {StageList[stage_ix]} |->
                          IF s = StageList[stage_ix] THEN "SKIP (not found)"
                          ELSE run_results[s]]
    /\ stage_ix' = stage_ix + 1
    /\ UNCHANGED <<script_exists, run_pc, run_log, processed, exit_code, runrest>>

\* the child runs and exits, subprocess.run returns: a child that exits with
\* status 0 has made all its writes, one that fails has made the first n of
\* them; script 05 fails when a file it needs is not there
StageExits ==
    /\ run_pc = "child"
    /\ LET s == StageList[stage_ix]
           loaded == LoadAll(StageLoads(s), processed)
       IN  \E returncode \in {0, 1}, n \in 0..Len(StageWrites(s)) :
              /\ returncode = 0 => n = Len(StageWrites(s))
              /\ loaded.raised => returncode = 1
              /\ run_log' = run_log
                    \o [i \in DOMAIN loaded.read |-> Event("read", s, loaded.read[i])]
                    \o [i \in 1..n |-> Event("write", s, StageWrites(s)[i])]
                    \o << Event(IF returncode = 0 THEN "exit 0" ELSE "exit 1", s, "") >>
              /\ processed' = processed \cup {StageWrites(s)[i] : i \in 1..n}
              /\ run_results' = [t \in DOMAIN run_results \cup {s} |->
                                    IF t = s
                                    THEN (IF run_script(returncode) THEN "PASS" ELSE "FAIL")
                                    ELSE run_results[t]]
    /\ stage_ix' = stage_ix + 1
    /\ run_pc' = "loop"
    /\ UNCHANGED <<script_exists, exit_code, runrest>>

\* lines 248-353 and 356: the summary is printed and main returns
MainReturns ==
    /\ run_pc = "loop" /\ stage_ix = Len(StageList) + 1
    /\ exit_code' = Some(IF all_core_pass(run_results) THEN 0 ELSE 1)
    /\ run_pc' = "exited"
    /\ UNCHANGED <<script_exists, stage_ix, run_results, run_log, processed, runrest>>

NextRunner ==
    \/ StartStage
    \/ SkipStage
    \/ StageExits
    \/ MainReturns

SpecRunner == InitRunner /\ [][NextRunner]_vars

(***************************************************************************)
(* The loaders of scripts 02 and 04 that fetch from remote services and    *)
(* cache what they fetched in data/raw.  A file name is the sequence of    *)
(* its characters, so that the glob and the regular expression of          *)
(* _latest_dated_cache are applied to the names the loader itself writes.  *)
(* A run of a stage is followed by further runs, on the same day or a      *)
(* later one.  A network call is answered by an HTTP status (0: no         *)
(* response, requests.get raised); what the service sends is an input.     *)
(***************************************************************************)
MaxRuns == 3          \* a stage is run at most MaxRuns times
MaxPerPage == 2       \* a page of a group_by result has 0..MaxPerPage groups
MaxGroups == 4        \* meta.groups_count is 0..MaxGroups, or absent

\* the characters of the cache names, in the order of their code points
Alphabet ==
    << "-", ".", "0", "1", "2", "3", "4", "5", "6", "7", "8", "9",
       "\\", "_", "a", "b", "c", "d", "e", "f", "g", "h", "i", "j",
       "k", "l", "m", "n", "o", "p", "q", "r", "s", "t", "u", "v", "w",
       "x", "y", "z" >>
Code(ch) == CHOOSE i \in DOMAIN Alphabet : Alphabet[i] = ch

\* a < b on str
RECURSIVE StrLess(_, _)
StrLess(a, b) ==
    IF b = << >> THEN FALSE
    ELSE IF a = << >> THEN TRUE
    ELSE IF Head(a) = Head(b) THEN StrLess(Tail(a), Tail(b))
    ELSE Code(Head(a)) < Code(Head(b))

Digit(n) == Alphabet[n + 3]
\* date.isoformat(): "YYYY-MM-DD"
isoformat(day) ==
    LET ym == MonthOfDay(day)
        y == ym \div 100
        m == ym % 100
        d == day - DaysFromCivil(y, m, 1) + 1
    IN  << Digit(y \div 1000), Digit((y \div 100) % 10), Digit((y \div 10) % 10),
           Digit(y % 10), "-", Digit(m \div 10), Digit(m % 10), "-",
           Digit(d \div 10), Digit(d % 10) >>

\* 02 line 93
prefix ==
    << "o", "p", "e", "n", "a", "l", "e", "x", "_", "t", "o", "t", "a",
       "l", "_", "a", "i", "_", "b", "y", "_", "y", "e", "a", "r" >>
JsonSuffix == << ".", "j", "s", "o", "n" >>
\* 02 line 96: f"{prefix}_{date.today().isoformat()}.json"
DatedName(day) == prefix \o << "_" >> \o isoformat(day) \o JsonSuffix

StartsWith(name, p) == Len(name) >= Len(p) /\ SubSeq(name, 1, Len(p)) = p
EndsWith(name, s) ==
    Len(name) >= Len(s) /\ SubSeq(name, Len(name) - Len(s) + 1, Len(name)) = s
\* 02 line 55: data_dir.glob(f"{prefix}_*.json")
Glob(files) ==
    {n \in files : /\ Len(n) >= Len(prefix) + 1 + Len(JsonSuffix)
                   /\ StartsWith(n, prefix \o << "_" >>)
                   /\ EndsWith(n, JsonSuffix)}

\* 02 line 61: the pattern r"_(\\d{4}-\\d{2}-\\d{2})\\.json$", one element per
\* character it matches.  In a raw string "\\" is two backslash characters,
\* which the regular expression reads as one literal backslash, and the d
\* after it is the letter d, repeated; "any" is the dot, left unescaped.
DatePattern ==
    << "_", "\\", "d", "d", "d", "d", "-", "\\", "d", "d", "-", "\\", "d", "d",
       "\\", "any", "j", "s", "o", "n" >>
\* the pattern of the docstring, {prefix}_YYYY-MM-DD.json
IsoPattern ==
    << "_", "digit", "digit", "digit", "digit", "-", "digit", "digit", "-",
       "digit", "digit", ".", "j", "s", "o", "n" >>
MatchesElement(e, ch) ==
    \/ e = "any"
    \/ e = "digit" /\ \E n \in 0..9 : ch = Digit(n)
    \/ e = ch
\* re.search(pattern, name) of a pattern that ends with $: the match is the
\* end of the name; Some(m.group(1)), or NotRun for None
re_search(pattern, closing, name) ==
    IF Len(name) < Len(pattern) THEN NotRun
    ELSE LET tail == SubSeq(name, Len(name) - Len(pattern) + 1, Len(name))
         IN  IF \A i \in DOMAIN pattern : MatchesElement(pattern[i], tail[i])
             THEN Some(SubSeq(tail, 2, closing))
             ELSE NotRun
\* m of line 61; the group closes after the 14th character of the match
DateOf(name) == re_search(DatePattern, 14, name)
\* the date of a name {prefix}_YYYY-MM-DD.json
IsoDateOf(name) == re_search(IsoPattern, 11, name)

\* 02 lines 53-68, _latest_dated_cache: the paths it may return, none for
\* None.  The sort is stable and glob yields the names in no given order, so
\* of the candidates with the greatest key any can come last.
latest_dated_cache(files) ==
    LET dated == {n \in Glob(files) : DateOf(n) # NotRun}
    IN  {n \in dated : \A o \in dated : ~StrLess(DateOf(n)[1], DateOf(o)[1])}

\* names data/raw may hold before the first run: two whose text is that of
\* the pattern of line 61, a cache of the day before, and another json file
EscapedName ==
    << "o", "p", "e", "n", "a", "l", "e", "x", "_", "t", "o", "t", "a",
       "l", "_", "a", "i", "_", "b", "y", "_", "y", "e", "a", "r", "_",
       "\\", "d", "d", "d", "d", "-", "\\", "d", "d", "-", "\\", "d",
       "d", "\\", ".", "j", "s", "o", "n" >>
EscapedCopy ==
    << "o", "p", "e", "n", "a", "l", "e", "x", "_", "t", "o", "t", "a",
       "l", "_", "a", "i", "_", "b", "y", "_", "y", "e", "a", "r", "_",
       "o", "l", "d", "_", "\\", "d", "d", "d", "d", "-", "\\", "d",
       "d", "-", "\\", "d", "d", "\\", ".", "j", "s", "o", "n" >>
OtherJson ==
    << "o", "p", "e", "n", "a", "l", "e", "x", "_", "t", "o", "t", "a",
       "l", "_", "a", "i", "_", "b", "y", "_", "y", "e", "a", "r", "_",
       "n", "o", "t", "e", "s", ".", "j", "s", "o", "n" >>
FirstDay == DaysFromCivil(2026, 1, 23)
RawNames == {EscapedName, EscapedCopy, OtherJson, DatedName(FirstDay - 1)}

\* 04 line 63
UNDP_CSV ==
    << "H", "D", "R", "2", "3", "-", "2", "4", "_", "C", "o", "m", "p",
       "o", "s", "i", "t", "e", "_", "i", "n", "d", "i", "c", "e", "s",
       "_", "c", "o", "m", "p", "l", "e", "t", "e", "_", "t", "i", "m",
       "e", "_", "s", "e", "r", "i", "e", "s", ".", "c", "s", "v" >>

\* the HTTP statuses a call is answered with; 0 stands for no response
Statuses == {0, 200, 404, 503}
\* requests.get returned and resp.raise_for_status() did not raise
Responded(status) == status # 0
Succeeds(status) == status # 0 /\ ~(400 <= status /\ status < 600)

\* the stage is started again: nothing of the run before is left but the files
NextRun ==
    /\ ld_pc = "exited" /\ runs_done < MaxRuns
    /\ \E later \in {0, 1} : today' = today + later
    /\ ld_pc' = "start"
    /\ selected' = NotRun /\ stage_exit' = NotRun /\ last_status' = NotRun
    /\ net_calls' = 0 /\ page' = 0 /\ groups' = << >> /\ requested' = << >>
    /\ UNCHANGED <<fetch_stage, cache_files, country_cache, runs_done,
                   cache_writes, fetchrest>>

\* the rest of main, after the loaders: the stage exits, with 0 or not
StageEnds ==
    /\ ld_pc = "loaded"
    /\ \E returncode \in {0, 1} : stage_exit' = Some(returncode)
    /\ ld_pc' = "exited"
    /\ runs_done' = runs_done + 1
    /\ UNCHANGED <<fetch_stage, today, cache_files, country_cache, selected,
                   page, groups, requested, net_calls, cache_writes,
                   last_status, fetchrest>>

\* ---- 02, load_total_ai_counts_by_year
InitBiblio ==
    /\ fetch_stage = "02"
    /\ today = FirstDay
    /\ cache_files \in SUBSET RawNames
    /\ country_cache = NotRun
    /\ ld_pc = "start"
    /\ selected = NotRun
    /\ page = 0 /\ groups = << >> /\ requested = << >>
    /\ net_calls = 0
    /\ stage_exit = NotRun
    /\ runs_done = 0
    /\ cache_writes = {}
    /\ last_status = NotRun
    /\ RunnerIdle
    /\ AggOff
    /\ SnowIdle
    /\ NpaIdle
    /\ MainIdle
    /\ TrendsIdle

\* lines 94, 98-99: a cache was found and is read
ReadTotalsCache ==
    /\ fetch_stage = "02" /\ ld_pc = "start"
    /\ \E cache \in latest_dated_cache(cache_files) : selected' = Some(cache)
    /\ ld_pc' = "loaded"
    /\ UNCHANGED <<fetch_stage, today, cache_files, country_cache, page, groups,
                   requested, net_calls, stage_exit, runs_done, cache_writes,
                   last_status, fetchrest>>

\* lines 95-97 and 71-88: no cache was found; fetch_openalex_total_ai_by_year
\* makes one request and writes the payload to today's cache, or raises, and
\* nothing in the script catches what it raises
FetchTotals ==
    /\ fetch_stage = "02" /\ ld_pc = "start"
    /\ latest_dated_cache(cache_files) = {}
    /\ \E status \in Statuses :
          LET cache == DatedName(today) IN
          /\ net_calls' = net_calls + 1
          /\ last_status' = Some(status)
          /\ IF Succeeds(status)
             THEN /\ cache_files' = cache_files \cup {cache}
                  /\ cache_writes' =
                        cache_writes \cup {[run |-> runs_done, file |-> cache]}
                  /\ selected' = Some(cache)
                  /\ ld_pc' = "loaded"
                  /\ UNCHANGED <<stage_exit, runs_done>>
             ELSE /\ stage_exit' = Some(1)
                  /\ ld_pc' = "exited"
                  /\ runs_done' = runs_done + 1
                  /\ UNCHANGED <<cache_files, cache_writes, selected>>
    /\ UNCHANGED <<fetch_stage, today, country_cache, page, groups, requested,
                   fetchrest>>

NextBiblio ==
    \/ ReadTotalsCache
    \/ FetchTotals
    \/ StageEnds
    \/ NextRun

SpecBiblio == InitBiblio /\ [][NextBiblio]_vars

\* ---- 04, load_openalex_country_counts and ensure_undp_file
\* the groups of a page: each is told from all others by its page and place
PageGroups(p, n) == [i \in 1..n |-> << p, i >>]
\* meta.groups_count as the service may send it; null is read as 0 by `or 0`
MetaCounts == {NotRun} \cup {Some(c) : c \in 0..MaxGroups}
\* line 110: int(meta.get("groups_count", len(page_groups)) or 0)
groups_count(meta, page_groups) ==
    IF meta = NotRun THEN Len(page_groups) ELSE meta[1]
\* line 113
StopOnEmptyPage(page_groups, all, count) == page_groups = << >>
Stops(page_groups, all, count) == page_groups = << >> \/ Len(all) >= count
\* line 107: groups.extend(page_groups)
Extend(all, page_groups) == all \o page_groups

CountryCaches == {NotRun, Some(PageGroups(1, 1))}
InitStrat ==
    /\ fetch_stage = "04"
    /\ today = FirstDay
    /\ cache_files \in SUBSET {UNDP_CSV}
    /\ country_cache \in CountryCaches
    /\ ld_pc = "start"
    /\ selected = NotRun
    /\ page = 0 /\ groups = << >> /\ requested = << >>
    /\ net_calls = 0
    /\ stage_exit = NotRun
    /\ runs_done = 0
    /\ cache_writes = {}
    /\ last_status = NotRun
    /\ RunnerIdle
    /\ AggOff
    /\ SnowIdle
    /\ NpaIdle
    /\ MainIdle
    /\ TrendsIdle

\* lines 125-126: the cache exists and is read
ReadCountryCache ==
    /\ fetch_stage = "04" /\ ld_pc = "start"
    /\ country_cache # NotRun
    /\ selected' = country_cache
    /\ ld_pc' = "undp"
    /\ UNCHANGED <<fetch_stage, today, cache_files, country_cache, page, groups,
                   requested, net_calls, stage_exit, runs_done, cache_writes,
                   last_status, fetchrest>>

\* lines 127-128 and 90-91: no cache; fetch_openalex_groupby is entered
EnterGroupby ==
    /\ fetch_stage = "04" /\ ld_pc = "start"
    /\ country_cache = NotRun
    /\ groups' = << >>
    /\ page' = 1
    /\ ld_pc' = "paging"
    /\ UNCHANGED <<fetch_stage, today, cache_files, country_cache, selected,
                   requested, net_calls, stage_exit, runs_done, cache_writes,
                   last_status, fetchrest>>

\* lines 93-118, one turn of the loop: the page is requested; a failed call
\* raises out of the stage; otherwise its groups are added and the loop goes
\* on, or the payload is returned and written to the cache (line 129)
RequestPage ==
    /\ fetch_stage = "04" /\ ld_pc = "paging"
    /\ page <= MaxGroups
    /\ \E status \in Statuses, n \in 0..MaxPerPage, meta \in MetaCounts :
          LET page_groups == PageGroups(page, n)
              all == Extend(groups, page_groups)
              count == groups_count(meta, page_groups)
          IN  /\ net_calls' = net_calls + 1
              /\ last_status' = Some(status)
              /\ IF ~Succeeds(status)
                 THEN /\ n = 0 /\ meta = NotRun
                      /\ stage_exit' = Some(1)
                      /\ ld_pc' = "exited"
                      /\ runs_done' = runs_done + 1
                      /\ UNCHANGED <<groups, requested, page, country_cache,
                                     selected>>
                 ELSE /\ groups' = all
                      /\ requested' =
                            Append(requested, [page |-> page,
                                               page_groups |-> page_groups,
                                               meta |-> meta])
                      /\ IF Stops(page_groups, all, count)
                         THEN /\ selected' = Some(all)
                              /\ country_cache' = Some(all)
                              /\ ld_pc' = "undp"
                              /\ UNCHANGED page
                         ELSE /\ page' = page + 1
                              /\ UNCHANGED <<selected, country_cache, ld_pc>>
                      /\ UNCHANGED <<stage_exit, runs_done>>
    /\ UNCHANGED <<fetch_stage, today, cache_files, cache_writes, fetchrest>>

\* lines 149-156, ensure_undp_file: nothing to do when the file is there;
\* otherwise one request, and the file is written or the call raises
EnsureUndp ==
    /\ fetch_stage = "04" /\ ld_pc = "undp"
    /\ IF UNDP_CSV \in cache_files
       THEN /\ ld_pc' = "loaded"
            /\ UNCHANGED <<cache_files, net_calls, last_status, stage_exit,
                           runs_done>>
       ELSE \E status \in Statuses :
               /\ net_calls' = net_calls + 1
               /\ last_status' = Some(status)
               /\ IF Succeeds(status)
                  THEN /\ cache_files' = cache_files \cup {UNDP_CSV}
                       /\ ld_pc' = "loaded"
                       /\ UNCHANGED <<stage_exit, runs_done>>
                  ELSE /\ stage_exit' = Some(1)
                       /\ ld_pc' = "exited"
                       /\ runs_done' = runs_done + 1
                       /\ UNCHANGED cache_files
    /\ UNCHANGED <<fetch_stage, today, country_cache, selected, page, groups,
                   requested, cache_writes, fetchrest>>

NextStrat ==
    \/ ReadCountryCache
    \/ EnterGroupby
    \/ RequestPage
    \/ EnsureUndp
    \/ StageEnds
    \/ NextRun

SpecStrat == InitStrat /\ [][NextStrat]_vars
\* the loop of fetch_openalex_groupby is not held up for ever
SpecStratLive == SpecStrat /\ WF_vars(RequestPage)

\* either stage
InitFetch == InitBiblio \/ InitStrat
NextFetch == NextBiblio \/ NextStrat
SpecFetch == InitFetch /\ [][NextFetch]_vars

(***************************************************************************)
(* Properties.                                                             *)
(***************************************************************************)
\* what the claims call a well-formed row, and a row that is dropped
WellFormed(r) ==
    /\ r.date # NA /\ r.Timestamp # NA
    /\ r.noteAuthorParticipantId # NA
    /\ r.tweetId # NA
IndicesOf(file, P(_)) == {i \in DOMAIN file : P(file[i])}
RowMonth(r) == MonthOfDay(r.date[1])
RowTime(r) == [d |-> r.date[1], ms |-> r.Timestamp[1]]
ChunkOfRow(i) == (i - 1) \div chunksize      \* the chunk row i arrives in

SameAggregates(clean) ==
    /\ clean.pc = "returned"
    /\ clean.monthly = monthly
    /\ clean.totals.total_contributors = totals.total_contributors
    /\ clean.totals.total_distinct_posts = totals.total_distinct_posts
    /\ DOMAIN clean.lang_rows = {lang_df[i].Language : i \in DOMAIN lang_df}
    /\ \A i \in DOMAIN lang_df :
          LET c == clean.lang_rows[lang_df[i].Language]
          IN  /\ c.Notes = lang_df[i].Notes
              /\ c.Unique_Authors = lang_df[i].Unique_Authors
SameRowTotals(clean) ==
    /\ clean.totals.total_notes = totals.total_notes
    /\ \A i \in DOMAIN lang_df :
          clean.lang_rows[lang_df[i].Language].Notes_Share = lang_df[i].Notes_Share

\* C2 as claimed: the results are those of the same file without its dropped
\* rows, in every output: monthly table, global totals (total_notes included),
\* language counts and language shares.
C2_DroppedRowInNoAggregate ==
    pc = "returned" =>
        LET clean == compute_monthly_metrics(SelectSeq(rows, WellFormed), chunksize)
        IN  SameAggregates(clean) /\ SameRowTotals(clean)

\* C2 amended: a dropped row shows in no monthly count or actor set, in no
\* global actor or subject total and in no language count; it is counted in
\* total_notes, which is the number of rows read, and so in the denominator of
\* every language share.
C2_DroppedRowOnlyInRowTotals ==
    pc = "returned" =>
        LET clean == compute_monthly_metrics(SelectSeq(rows, WellFormed), chunksize)
            nDropped == Len(rows) - Len(SelectSeq(rows, WellFormed))
        IN  /\ SameAggregates(clean)
            /\ totals.total_notes = clean.totals.total_notes + nDropped
            /\ \A i \in DOMAIN lang_df :
                  lang_df[i].Notes_Share =
                      Some(Frac(lang_df[i].Notes, Len(rows)))

\* C2 witness: a pass that returned after dropping a row for its actor id and
\* a row for its timestamp.
C2_Witness ==
    /\ pc = "returned"
    /\ \E i \in DOMAIN rows : rows[i].noteAuthorParticipantId = NA
    /\ \E i \in DOMAIN rows : rows[i].date = NA \/ rows[i].Timestamp = NA

\* C3: after all chunks, the distinct-actor count of each month is the number
\* of distinct actor ids among the kept events of that month, and every month
\* with a kept event has a row.
C3_DistinctActorsPerMonth ==
    pc = "returned" =>
        LET kept == IndicesOf(rows, WellFormed)
        IN  /\ {monthly[i].Month : i \in DOMAIN monthly} = {RowMonth(rows[j]) : j \in kept}
            /\ \A i \in DOMAIN monthly :
                  monthly[i].Active_Authors =
                      Cardinality({rows[j].noteAuthorParticipantId[1] :
                                     j \in {k \in kept : RowMonth(rows[k]) = monthly[i].Month}})

\* C3 witness: one actor with two events of one month that arrived in
\* different chunks, and another actor in that month.
C3_Witness ==
    /\ pc = "returned"
    /\ \E i, j, k \in IndicesOf(rows, WellFormed) :
          /\ ChunkOfRow(i) # ChunkOfRow(j)
          /\ RowMonth(rows[i]) = RowMonth(rows[j]) /\ RowMonth(rows[k]) = RowMonth(rows[i])
          /\ rows[i].noteAuthorParticipantId = rows[j].noteAuthorParticipantId
          /\ rows[k].noteAuthorParticipantId # rows[i].noteAuthorParticipantId

\* the chunks the reader cuts the file into, and the per-tweet dictionary
\* after lines 190-199 have run on each chunk of a sequence of chunks
ChunksOf(file, size) ==
    [k \in 1..((Len(file) + size - 1) \div size) |-> NextChunk(file, (k - 1) * size, size)]
RECURSIVE EarliestAfter(_, _)
EarliestAfter(earliest, chunks) ==
    IF chunks = <<>> THEN earliest
    ELSE EarliestAfter(
            MergeEarliest(earliest, min_per_tweet(SelectSeq(Head(chunks), Dropna))),
            Tail(chunks))
Orders(n) == {p \in [1..n -> 1..n] : \A i, j \in 1..n : i # j => p[i] # p[j]}

\* C4: for the chunks of the file, the earliest-event time recorded for every
\* subject once all chunks are processed is the same for every order in which
\* the chunks are processed.
C4_EarliestIndependentOfChunkOrder ==
    (pc \in {"loop", "returned"} /\ next_row = Len(rows)) =>
        LET chunks == ChunksOf(rows, chunksize)
        IN  \A p \in Orders(Len(chunks)) :
                EarliestAfter(EmptyDict, [k \in DOMAIN chunks |-> chunks[p[k]]])
                    = earliest_note_ms_by_tweet

\* C4 witness: all chunks are processed and a subject has events at different
\* times in two different chunks, the earlier event in the later chunk.
C4_Witness ==
    /\ pc = "loop" /\ next_row = Len(rows)
    /\ \E i, j \in IndicesOf(rows, WellFormed) :
          /\ ChunkOfRow(i) < ChunkOfRow(j)
          /\ rows[i].tweetId = rows[j].tweetId
          /\ MsLess(RowTime(rows[j]), RowTime(rows[i]))

\* C5: in every step, every subject recorded before the step is recorded
\* after it, with an earliest-event time that is not later than before.
C5_EarliestNeverIncreases ==
    [][\A tid \in DOMAIN earliest_note_ms_by_tweet :
          /\ tid \in DOMAIN earliest_note_ms_by_tweet'
          /\ MsLeq(earliest_note_ms_by_tweet'[tid], earliest_note_ms_by_tweet[tid])]_vars

\* C5 witness: a subject recorded from an earlier chunk whose events of a
\* later, processed chunk are later than the recorded time.
C5_Witness ==
    \E i, j \in IndicesOf(rows, WellFormed) :
        /\ ChunkOfRow(i) < ChunkOfRow(j) /\ j <= next_row
        /\ rows[i].tweetId = rows[j].tweetId
        /\ MsLess(RowTime(rows[i]), RowTime(rows[j]))
        /\ earliest_note_ms_by_tweet[rows[i].tweetId[1]] = RowTime(rows[i])

\* C6: for every creation time from the epoch on whose offset from the epoch
\* fits in 41 bits, and any low 22 bits, decoding ((creation - epoch) << 22) | low
\* gives the creation time back.
C6_DecodeRecoversCreationTime ==
    tweet_ms # NotRun =>
        \A c \in CreationTimes, lo \in LowBits :
            tweet_id_arr[1] = SnowflakeOf(c, lo) => tweet_ms[1] = c

\* C6 witness: the id of the last creation time whose offset fits in 41 bits,
\* with all low bits set, has been decoded.
C6_Witness ==
    /\ tweet_ms # NotRun
    /\ tweet_id_arr[1] = SnowflakeOf([d |-> 40368, ms |-> 63030208], Two22 - 1)
    /\ tweet_id_arr[1].t1 = (Two21 \div 2) - 1

\* C7: Notes_per_Author of a row is Notes / Active_Authors when Active_Authors
\* is not zero, and is missing when Active_Authors is zero.
C7_NotesPerAuthor ==
    npa_out # NotRun =>
        LET n == npa_in[1].Notes
            a == npa_in[1].Active_Authors
            q == npa_out[1]
        IN  /\ a = 0 => q = NaN
            /\ a # 0 => /\ q # NaN
                        /\ q[1].den > 0
                        /\ q[1].num * a = q[1].den * n

\* C7 witness: a row with events and no actor has been divided.
C7_Witness ==
    /\ npa_out # NotRun
    /\ npa_in[1].Active_Authors = 0 /\ npa_in[1].Notes > 0

\* C8: with N rows ingested, M of them without an actor id, the dropped-row
\* count is at least M and at most N, and is zero when all N rows are well
\* formed; the reported total is that count.
C8_DroppedRowsBounds ==
    LET ingested == SubSeq(rows, 1, next_row)
        M == Cardinality({i \in DOMAIN ingested : ingested[i].noteAuthorParticipantId = NA})
    IN  /\ total_rows = next_row
        /\ M <= dropped_rows /\ dropped_rows <= total_rows
        /\ (\A i \in DOMAIN ingested : WellFormed(ingested[i])) => dropped_rows = 0
        /\ pc = "returned" => totals.dropped_rows = dropped_rows /\ next_row = Len(rows)

\* C8 witness: a pass that returned with a row without an actor id and more
\* dropped rows than that.
C8_Witness ==
    /\ pc = "returned"
    /\ Cardinality({i \in DOMAIN rows : rows[i].noteAuthorParticipantId = NA}) = 1
    /\ totals.dropped_rows = 2

\* C9 as claimed: a file that holds a row with an unparsable timestamp or a
\* missing actor id or subject id never makes the pass raise.
C9_MalformedRowNeverAborts ==
    (\E i \in DOMAIN rows : ~WellFormed(rows[i])) => pc # "raised"

\* C10: a subject is in the frame the monthly medians are taken from exactly
\* when its earliest event is not before its decoded creation time; the value
\* kept is the full difference, however large; a month has a median exactly
\* when such a subject has its earliest event in it.
C10_NonNegativeDeltasContribute ==
    pc = "returned" =>
        /\ \A tid \in DOMAIN earliest_note_ms_by_tweet :
              LET first == earliest_note_ms_by_tweet[tid]
                  created == _tweet_id_to_timestamp_ms(tid)
              IN  /\ tid \in DOMAIN df_first <=> MsLeq(created, first)
                  /\ tid \in DOMAIN df_first =>
                        MsAdd(created, df_first[tid].TimeToFirstNote_hours) = first
        /\ DOMAIN df_first \subseteq DOMAIN earliest_note_ms_by_tweet
        /\ \A i \in DOMAIN monthly :
              monthly[i].Median_TimeToFirstNote_hours # NaN
                  <=> \E tid \in DOMAIN df_first : df_first[tid].Month = monthly[i].Month

\* C10 witness: a pass that returned with one subject discarded for a negative
\* difference and one kept with a difference of more than a year.
C10_Witness ==
    /\ pc = "returned"
    /\ \E tid \in DOMAIN earliest_note_ms_by_tweet : tid \notin DOMAIN df_first
    /\ \E tid \in DOMAIN df_first : df_first[tid].TimeToFirstNote_hours.d > 365

\* the kept rows of the file that are about subject tid, and the k-th smallest
\* of the values that df_first holds for the subjects in S
KeptRowsOf(tid) ==
    {i \in DOMAIN rows : WellFormed(rows[i]) /\ rows[i].tweetId[1] = tid}
OrderStatistic(S, k) ==
    CHOOSE v \in {df_first[t].TimeToFirstNote_hours : t \in S} :
        /\ Cardinality({t \in S : MsLess(df_first[t].TimeToFirstNote_hours, v)}) < k
        /\ k <= Cardinality({t \in S : MsLeq(df_first[t].TimeToFirstNote_hours, v)})
AssignedTo(m) == {t \in DOMAIN df_first : df_first[t].Month = m}

\* C11: every retained subject carries one month, the month of the earliest
\* of all its kept events in the file; the median of a month of the monthly
\* table is the median (doubled: the sum of the two middle order statistics)
\* of the values of the subjects that carry that month, and it is missing
\* when no retained subject carries the month.
C11_MedianOfAssignedValues ==
    pc = "returned" =>
        /\ \A tid \in DOMAIN df_first :
              \E i \in KeptRowsOf(tid) :
                  /\ \A j \in KeptRowsOf(tid) : MsLeq(RowTime(rows[i]), RowTime(rows[j]))
                  /\ df_first[tid].Month = RowMonth(rows[i])
        /\ \A i \in DOMAIN monthly :
              LET S == AssignedTo(monthly[i].Month)
                  n == Cardinality(S)
              IN  monthly[i].Median_TimeToFirstNote_hours =
                      IF n = 0 THEN NaN
                      ELSE Some(MsAdd(OrderStatistic(S, (n + 1) \div 2),
                                      OrderStatistic(S, (n \div 2) + 1)))

\* C11 witness: a pass that returned a month whose median lies between the
\* two different values assigned to it, and a month with events and no
\* retained subject.
C11_Witness ==
    /\ pc = "returned"
    /\ \E i \in DOMAIN monthly :
          \E t, u \in AssignedTo(monthly[i].Month) :
              /\ AssignedTo(monthly[i].Month) = {t, u}
              /\ df_first[t].TimeToFirstNote_hours # df_first[u].TimeToFirstNote_hours
    /\ \E i \in DOMAIN monthly : AssignedTo(monthly[i].Month) = {}

\* C12: the monthly table has a row for a calendar month exactly when a kept
\* row of the file falls in that month, and its rows are in strictly
\* increasing order of month (so no month has two rows).
C12_OneRowPerMonthAscending ==
    pc = "returned" =>
        /\ {monthly[i].Month : i \in DOMAIN monthly} =
              {RowMonth(rows[j]) : j \in IndicesOf(rows, WellFormed)}
        /\ \A i, j \in DOMAIN monthly : i < j => monthly[i].Month < monthly[j].Month

\* C12 witness: a pass that returned a table of two months from a file whose
\* first kept row is of the later month.
C12_Witness ==
    /\ pc = "returned"
    /\ Len(monthly) = 2
    /\ WellFormed(rows[1])
    /\ RowMonth(rows[1]) = monthly[2].Month

\* C13 as claimed: in the language table every share is the row's count over
\* the total number of events and the rows are in descending order of count;
\* and a pass that reads all of a file of no events returns, its shares NaN.
C13_SharesSortedAndZeroTotalReturns ==
    /\ pc = "returned" =>
          /\ \A i \in DOMAIN lang_df :
                lang_df[i].Notes_Share =
                    IF totals.total_notes # 0
                    THEN Some(Frac(lang_df[i].Notes, totals.total_notes))
                    ELSE NaN
          /\ \A i, j \in DOMAIN lang_df :
                i < j => lang_df[i].Notes >= lang_df[j].Notes
    /\ (pc # "loop" /\ next_row = Len(rows) /\ total_rows = 0) =>
          /\ pc = "returned"
          /\ \A i \in DOMAIN lang_df : lang_df[i].Notes_Share = NaN

\* C14: when the notes file does not exist, the only step main takes is the
\* one that fails in _ensure_notes_file: it is taken from the entry of main
\* (so it is never taken again), the chunk loop is never entered, no row is
\* read, no accumulator or result changes, and no output file is written.
C14_MissingFileFailsBeforeAnyChunk ==
    [][ ~notes_exists =>
            /\ main_pc = "start" /\ main_pc' = "failed"
            /\ pc = "off" /\ pc' = "off"
            /\ next_row' = 0 /\ total_rows' = 0
            /\ month_note_counts' = EmptyDict
            /\ earliest_note_ms_by_tweet' = EmptyDict
            /\ monthly' = NotRun /\ totals' = NotRun /\ lang_df' = NotRun
            /\ prepost' = NotRun
            /\ written' = {} ]_vars

\* C14 witness: main has failed on a missing file.
C14_Witness == ~notes_exists /\ main_pc = "failed"

\* the rows of a table that have a value, and what it is for two parts of a
\* table to split them at a date: no row is in both, every row with a value
\* is in one of them and no other row is, the rows dated before the date are
\* in the first and the rows dated at it or later are in the second
RowsWithValue(table) == {table[i] : i \in {j \in DOMAIN table : table[j].value # NaN}}
SplitsAt(table, before, after, cut) ==
    /\ Range(before) \cap Range(after) = {}
    /\ Range(before) \cup Range(after) = RowsWithValue(table)
    /\ Len(before) + Len(after) = Cardinality(RowsWithValue(table))
    /\ \A r \in RowsWithValue(table) :
          /\ r.date < cut => r \in Range(before)
          /\ r.date = cut => r \in Range(after)
          /\ r.date > cut => r \in Range(after)

\* C15: the "before" and "after" sets are disjoint, together hold every row
\* with a value, and hold a row dated at the cutover in "after": for the
\* monthly table that summarize_pre_post splits (every row of it counts, the
\* row of November 2022 is the one at the cutover), for the table script 01
\* and script 07 split at 2022-11-01, and for the table placebo_test splits
\* at each of its nine break dates.
C15_BeforeAfterPartition ==
    /\ pc = "returned" =>
          /\ Range(Layer3Pre(monthly)) \cap Range(Layer3Post(monthly)) = {}
          /\ Range(Layer3Pre(monthly)) \cup Range(Layer3Post(monthly)) = Range(monthly)
          /\ Len(Layer3Pre(monthly)) + Len(Layer3Post(monthly)) = Len(monthly)
          /\ \A i \in DOMAIN monthly :
                /\ monthly[i].Month < 202211 => monthly[i] \in Range(Layer3Pre(monthly))
                /\ monthly[i].Month >= 202211 => monthly[i] \in Range(Layer3Post(monthly))
    /\ script = "01" => SplitsAt(df, L1Pre(df), L1Post(df), MonthDate(2022 * 12 + 10))
    /\ script = "07" =>
          SplitsAt(df, EffectsPre(df), EffectsPost(df), MonthDate(2022 * 12 + 10))
    /\ script = "06" =>
          \A i \in DOMAIN TestedBreaks :
              SplitsAt(df, PlaceboPre(df, TestedBreaks[i]),
                       PlaceboPost(df, TestedBreaks[i]), TestedBreaks[i])

\* C15 witness: script 06 has run on a table that has a row with a value at
\* 2022-11-01, rows with values before it, and a row without a value.
C15_Witness ==
    /\ script = "06" /\ tr_pc = "done"
    /\ \E i \in DOMAIN df : df[i].date = CHATGPT_BREAK /\ df[i].value # NaN
    /\ \E i \in DOMAIN df : df[i].date < CHATGPT_BREAK /\ df[i].value # NaN
    /\ \E i \in DOMAIN df : df[i].value = NaN

\* the k-th smallest of the values of a column, found by counting, and the
\* median of a column that is not empty, doubled
KthSmallest(v, k) ==
    CHOOSE x \in Range(v) :
        /\ Cardinality({i \in DOMAIN v : v[i] < x}) < k
        /\ k <= Cardinality({i \in DOMAIN v : v[i] <= x})
MedianDoubled(v) ==
    KthSmallest(v, (Len(v) + 1) \div 2) + KthSmallest(v, (Len(v) \div 2) + 1)
\* the values of the rows with a value dated before a date, and from it on
ValuesBefore(table, cut) ==
    ValuesOf(SelectSeq(table, LAMBDA r : r.value # NaN /\ r.date < cut))
ValuesFrom(table, cut) ==
    ValuesOf(SelectSeq(table, LAMBDA r : r.value # NaN /\ r.date >= cut))
\* x is 100 * (post - pre) / pre for the doubled medians pre2 > 0 and post2
IsPctChange(x, pre2, post2) ==
    isfinite(x) /\ x[1].num * pre2 = 100 * (post2 - pre2) * x[1].den
\* x is 100 * (post - pre) / pre rounded to a multiple of 0.1
IsPctChangeRounded(x, pre2, post2) ==
    /\ isfinite(x)
    /\ 10 % x[1].den = 0
    /\ LET diff == 20 * (x[1].num * pre2 - 100 * (post2 - pre2) * x[1].den)
       IN  diff <= x[1].den * pre2 /\ -diff <= x[1].den * pre2

\* C16 as claimed: the median shift a script reports is the percentage change
\* 100 * (post_median - pre_median) / pre_median of the medians of the two
\* sets: where the quotient exists the reported number is equal to it, and a
\* number is reported only where it exists.
C16_MedianShiftIsPctChange ==
    /\ (script = "01" /\ tr_pc = "done" /\ isfinite(trend_row[1].Effect_Pct)) =>
          LET pre == ValuesBefore(df, MonthDate(2022 * 12 + 10))
              post == ValuesFrom(df, MonthDate(2022 * 12 + 10))
          IN  /\ MedianDoubled(pre) # 0
              /\ IsPctChangeRounded(trend_row[1].Effect_Pct,
                                    MedianDoubled(pre), MedianDoubled(post))
    /\ (script = "06" /\ tr_pc \in {"placebo", "flags", "done"}) =>
          \A i \in DOMAIN placebo_results[1] :
              LET row == placebo_results[1][i]
                  pre == ValuesBefore(df, row.break_date)
                  post == ValuesFrom(df, row.break_date)
              IN  /\ MedianDoubled(pre) # 0
                  /\ IsPctChange(row.effect_pct, MedianDoubled(pre), MedianDoubled(post))

\* C16, amended: where the median of the "before" set is positive the median
\* shift is 100 * (post_median - pre_median) / pre_median, which script 01
\* reports rounded to one decimal; where that median is 0, placebo_test
\* reports a shift of 0 and script 01 reports no finite number.
C16_MedianShiftWherePreMedianPositive ==
    /\ (script = "01" /\ tr_pc = "done" /\ L1Pre(df) # <<>> /\ L1Post(df) # <<>>) =>
          LET pre2 == MedianDoubled(ValuesBefore(df, MonthDate(2022 * 12 + 10)))
              post2 == MedianDoubled(ValuesFrom(df, MonthDate(2022 * 12 + 10)))
          IN  IF pre2 > 0
              THEN IsPctChangeRounded(trend_row[1].Effect_Pct, pre2, post2)
              ELSE ~isfinite(trend_row[1].Effect_Pct)
    /\ (script = "06" /\ tr_pc \in {"placebo", "flags", "done"}) =>
          \A i \in DOMAIN placebo_results[1] :
              LET row == placebo_results[1][i]
                  pre2 == MedianDoubled(ValuesBefore(df, row.break_date))
                  post2 == MedianDoubled(ValuesFrom(df, row.break_date))
              IN  IF pre2 > 0
                  THEN IsPctChange(row.effect_pct, pre2, post2)
                  ELSE row.effect_pct = Some(SFrac(0, 1))

\* C16 witness: placebo_test has run on a table of 13 months at 1 and 13
\* months at 2 from the cutover on, and reports a shift of 100 percent at the
\* real break.
C16_Witness ==
    /\ script = "06" /\ tr_pc = "done"
    /\ df = TrendTable(13, 13, 0, 1, 2, 0)
    /\ \E i \in DOMAIN placebo_results[1] :
          /\ placebo_results[1][i].is_chatgpt
          /\ placebo_results[1][i].effect_pct = Some(SFrac(100, 1))

\* fewer than two periods with a value lie on one side of a date
FewPeriods(table, cut) ==
    Len(ValuesBefore(table, cut)) < 2 \/ Len(ValuesFrom(table, cut)) < 2

\* C17 as claimed: on a table with fewer than two periods on one side of the
\* cutover, script 01 and script 06 do not raise, script 01 reports the rank
\* test and every estimate of the regression as missing, and script 06
\* reports no statistic of the real break.
C17_FewPeriodsReportedAbsent ==
    FewPeriods(df, MonthDate(2022 * 12 + 10)) =>
        /\ tr_pc # "raised"
        /\ (script = "01" /\ tr_pc = "done") =>
              /\ trend_row[1].MW_P_Value = NaN
              /\ trend_row[1].Slope_Pre = NaN
              /\ trend_row[1].Slope_Change = NaN
              /\ trend_row[1].Slope_Post = NaN
              /\ trend_row[1].R_Squared = NaN
              /\ trend_row[1].Slope_Change_P_HAC = NaN
        /\ (script = "06" /\ tr_pc \in {"placebo", "flags", "done"}) =>
              \A i \in DOMAIN placebo_results[1] : ~placebo_results[1][i].is_chatgpt

\* the regression fields of a result row of the placebo test
RegressionFields(row) ==
    << row.its_slope_pre, row.its_slope_change, row.its_slope_post,
       row.its_slope_change_p_hac, row.its_n_pre, row.its_n_post,
       row.its_r_squared >>
AllMissing(fields) == \A i \in DOMAIN fields : fields[i] = NaN
TooFewToFit(table, cut) ==
    Len(ValuesBefore(table, cut)) < 12 \/ Len(ValuesFrom(table, cut)) < 12

StepAtCutover(table) ==
    /\ \A i \in DOMAIN table : table[i].value # NaN
    /\ ValuesBefore(table, CHATGPT_BREAK) # <<>>
    /\ ValuesFrom(table, CHATGPT_BREAK) # <<>>
    /\ \E a, b \in 1..(MaxValue + 1) :
          /\ a < b
          /\ \A i \in DOMAIN table :
                table[i].value[1] = (IF table[i].date < CHATGPT_BREAK THEN a ELSE b)

\* C19 as claimed, for a positive value before the cutover: on a table with a
\* step at the cutover and a result row for the cutover and each of the eight
\* placebo dates, script 06 reports the cutover as the date of the strongest
\* median effect.
C19_StepAtCutoverIsStrongest ==
    (/\ script = "06"
     /\ strongest # NotRun
     /\ StepAtCutover(df)
     /\ Len(placebo_results[1]) = Len(TestedBreaks))
        => strongest[1].chatgpt_median_strongest = TRUE

\* p is a finite number below 0.05
BelowFivePercent(p) ==
    p # NaN /\ p[1].den > 0 /\ 20 * p[1].num < p[1].den

\* C20: the pre-trend test of script 06 is run on exactly the rows of the
\* table dated before the cutover, in their order (a row dated at the cutover
\* or later is not among them), and it reports a significant pre-trend exactly
\* when the p-value it reports is finite and below 0.05.
C20_PreTrendStrictlyBeforeCutover ==
    (script = "06" /\ pre_trend # NotRun) =>
        /\ pre_data # NotRun
        /\ \A i \in DOMAIN pre_data[1] : pre_data[1][i].date < CHATGPT_BREAK
        /\ Range(pre_data[1]) = {df[i] : i \in {j \in DOMAIN df : df[j].date < CHATGPT_BREAK}}
        /\ Len(pre_data[1]) = Cardinality({j \in DOMAIN df : df[j].date < CHATGPT_BREAK})
        /\ \A i, j \in DOMAIN pre_data[1] :
              i < j => pre_data[1][i].date < pre_data[1][j].date
        /\ pre_trend[1].pre_trend_significant
              = BelowFivePercent(pre_trend[1].pre_p_value_hac)

\* C20 witness: a finished run on a table with a row dated at the cutover and
\* at least 12 rows before it, whose fitted trend is significant.
C20_Witness ==
    /\ script = "06" /\ tr_pc = "done"
    /\ \E i \in DOMAIN df : df[i].date = CHATGPT_BREAK
    /\ Len(pre_data[1]) >= 12
    /\ pre_trend[1].pre_trend_significant = TRUE
    /\ BelowFivePercent(pre_trend[1].pre_p_value_hac)

\* the retained rows among the rows the reader has handed out so far
RetainedSoFar == {i \in 1..next_row : WellFormed(rows[i])}

\* C25: after any prefix of chunks, the recorded subjects are the subject ids
\* of the retained events of those chunks, and the time recorded for a subject
\* is the minimum of the event times of its retained events in those chunks.
C25_EarliestIsMinimumOverPrefix ==
    /\ DOMAIN earliest_note_ms_by_tweet = {rows[i].tweetId[1] : i \in RetainedSoFar}
    /\ \A tid \in DOMAIN earliest_note_ms_by_tweet :
          LET mine == {i \in RetainedSoFar : rows[i].tweetId[1] = tid}
          IN  /\ \E i \in mine : RowTime(rows[i]) = earliest_note_ms_by_tweet[tid]
              /\ \A i \in mine : MsLeq(earliest_note_ms_by_tweet[tid], RowTime(rows[i]))

\* C25 witness: a proper prefix of the chunks is processed, in two chunks or
\* more, and a recorded subject has a retained event in it that is later than
\* its recorded time.
C25_Witness ==
    /\ pc = "loop" /\ chunksize < next_row /\ next_row < Len(rows)
    /\ \E i \in RetainedSoFar :
          MsLess(earliest_note_ms_by_tweet[rows[i].tweetId[1]], RowTime(rows[i]))

\* the sum of the column name of a table of rows of integers
RECURSIVE SumColumn(_, _)
SumColumn(table, name) ==
    IF table = <<>> THEN 0 ELSE Head(table)[name] + SumColumn(Tail(table), name)

\* C28: in the results of a pass that returned, the Notes of the monthly table
\* and the Notes of the language table have the same sum, the number of
\* retained rows of the file, and that sum plus dropped_rows is total_notes,
\* the number of rows of the file.
C28_CountsAddUp ==
    pc = "returned" =>
        /\ SumColumn(monthly, "Notes") = SumColumn(lang_df, "Notes")
        /\ SumColumn(monthly, "Notes") = Cardinality(IndicesOf(rows, WellFormed))
        /\ SumColumn(monthly, "Notes") + totals.dropped_rows = totals.total_notes
        /\ totals.total_notes = Len(rows)

\* C28 witness: a pass that returned on a file read in more than one chunk,
\* with a dropped row, two months and two languages.
C28_Witness ==
    /\ pc = "returned"
    /\ chunksize < Len(rows)
    /\ totals.dropped_rows > 0
    /\ Len(monthly) = 2 /\ Len(lang_df) = 2

\* C29: every row of the monthly table of a pass that returned has at least
\* one event and between one actor and as many actors as events, and a
\* Notes_per_Author that is present and at least 1; total_contributors is the
\* size of the union of the monthly actor sets, which holds the actor ids of
\* the retained rows.
C29_MonthlyCountsPositive ==
    pc = "returned" =>
        /\ \A i \in DOMAIN monthly :
              /\ monthly[i].Notes >= 1
              /\ 1 <= monthly[i].Active_Authors
              /\ monthly[i].Active_Authors <= monthly[i].Notes
              /\ monthly[i].Notes_per_Author # NaN
              /\ monthly[i].Notes_per_Author[1].den > 0
              /\ monthly[i].Notes_per_Author[1].num >= monthly[i].Notes_per_Author[1].den
        /\ totals.total_contributors =
              Cardinality(UNION {month_authors[m] : m \in DOMAIN month_authors})
        /\ UNION {month_authors[m] : m \in DOMAIN month_authors} =
              {rows[i].noteAuthorParticipantId[1] : i \in IndicesOf(rows, WellFormed)}

\* C29 witness: a pass that returned after dropping a row without an actor
\* id, with a month that has more events than actors.
C29_Witness ==
    /\ pc = "returned"
    /\ \E i \in DOMAIN rows : rows[i].noteAuthorParticipantId = NA
    /\ \E i \in DOMAIN monthly : monthly[i].Active_Authors < monthly[i].Notes

\* the result row of the real break and the result rows of the placebo breaks
ChatRow == SelectSeq(placebo_results[1], LAMBDA r : r.is_chatgpt)[1]
PlaceboRows == Range(SelectSeq(placebo_results[1], LAMBDA r : ~r.is_chatgpt))
PlaceboSlopes == {r.its_slope_change : r \in PlaceboRows} \ {NaN}

\* C26 as claimed, for a run with a result row of a placebo break: the median
\* flag is true exactly when the effect of the real break is larger in
\* magnitude than the effect of every placebo break with a result row, and the
\* slope flag exactly when both compared slope changes are there and that of
\* the real break is larger in magnitude than every placebo slope change.
C26_StrongestIsLargestInMagnitude ==
    (script = "06" /\ strongest # NotRun /\ PlaceboRows # {}) =>
        /\ strongest[1].chatgpt_median_strongest =
              (\A r \in PlaceboRows :
                  FloatLess(FloatAbs(r.effect_pct), FloatAbs(ChatRow.effect_pct)))
        /\ strongest[1].chatgpt_its_slope_strongest =
              /\ ChatRow.its_slope_change # NaN
              /\ PlaceboSlopes # {}
              /\ \A x \in PlaceboSlopes :
                    FloatLess(FloatAbs(x), FloatAbs(ChatRow.its_slope_change))

\* C26 amended: the median flag is true exactly when a placebo break has a
\* result row and the signed effect of the real break is strictly greater than
\* the signed effect of every placebo break (a tie gives false); the slope
\* flag is true exactly when the real break and a placebo break have a slope
\* change and that of the real break is strictly greater than every placebo
\* slope change that is there.
C26_StrongestIsStrictlyGreatestSigned ==
    (script = "06" /\ strongest # NotRun) =>
        /\ strongest[1].chatgpt_median_strongest =
              /\ PlaceboRows # {}
              /\ \A r \in PlaceboRows : FloatLess(r.effect_pct, ChatRow.effect_pct)
        /\ strongest[1].chatgpt_its_slope_strongest =
              /\ ChatRow.its_slope_change # NaN
              /\ PlaceboSlopes # {}
              /\ \A x \in PlaceboSlopes : FloatLess(x, ChatRow.its_slope_change)

\* C26 witness: the median flag is true over a placebo break whose effect is
\* negative and larger in magnitude than that of the real break.
C26_Witness ==
    /\ script = "06" /\ strongest # NotRun
    /\ strongest[1].chatgpt_median_strongest = TRUE
    /\ \E r \in PlaceboRows :
          /\ FloatLess(r.effect_pct, Some(SFrac(0, 1)))
          /\ FloatLess(FloatAbs(ChatRow.effect_pct), FloatAbs(r.effect_pct))

\* the events of the log of the runner with a given name, and the stages
\* that exited with status 0
LogEvents(ev) == {k \in DOMAIN run_log : run_log[k].ev = ev}
ExitedZero == {run_log[k].stage : k \in LogEvents("exit 0")}
CoreStages ==
    { "01_layer1_trends_analysis.py", "02_layer2_bibliometrics.py",
      "03_layer3_community_notes.py", "04_layer4_stratification.py" }

\* C21: the runner exits with 0 or 1, and with 0 exactly when each of the
\* four core scripts was found, was run and exited with status 0; the scripts
\* 05 to 08 have no part in it.
C21_ExitCodeIsCoreOutcome ==
    exit_code # NotRun =>
        /\ exit_code[1] \in {0, 1}
        /\ exit_code[1] = 0 <=>
              \A s \in CoreStages : script_exists[s] /\ s \in ExitedZero
        /\ \A s \in CoreStages :
              (~script_exists[s] \/ \E k \in LogEvents("exit 1") : run_log[k].stage = s)
                  => exit_code[1] = 1

\* C21 witness: the runner exited with 0 although an optional stage failed
\* and another optional script was not found.
C21_Witness ==
    /\ exit_code = Some(0)
    /\ \E k \in LogEvents("exit 1") : run_log[k].stage \notin CoreStages
    /\ \E s \in DOMAIN script_exists : s \notin CoreStages /\ ~script_exists[s]

\* the number a stage script is named by
StageNumber(s) ==
    CASE s = "01_layer1_trends_analysis.py" -> 1
      [] s = "02_layer2_bibliometrics.py" -> 2
      [] s = "03_layer3_community_notes.py" -> 3
      [] s = "04_layer4_stratification.py" -> 4
      [] s = "05_synthesis_visualization.py" -> 5
      [] s = "06_robustness_checks.py" -> 6
      [] s = "07_effect_sizes.py" -> 7
      [] s = "08_augmentation_divide_visual.py" -> 8
StageExit(k) == run_log[k].ev \in {"exit 0", "exit 1"}

\* C22: at every moment no stage is started twice, the stages are started in
\* the order of their numbers, a stage is started only when the stage started
\* before it has exited, and only scripts that exist are started; when the
\* runner exits, every script that exists has been started and has exited,
\* whatever the exit status of the others.
C22_EveryStageOnceInOrder ==
    LET starts == LogEvents("start")
    IN  /\ \A i, j \in starts :
              i < j =>
                  /\ StageNumber(run_log[i].stage) < StageNumber(run_log[j].stage)
                  /\ \E m \in (i + 1)..(j - 1) :
                        StageExit(m) /\ run_log[m].stage = run_log[i].stage
        /\ \A i \in starts : script_exists[run_log[i].stage]
        /\ run_pc = "exited" =>
              \A s \in DOMAIN script_exists :
                  script_exists[s] =>
                      /\ Cardinality({i \in starts : run_log[i].stage = s}) = 1
                      /\ Cardinality({m \in DOMAIN run_log :
                                        StageExit(m) /\ run_log[m].stage = s}) = 1

\* C22 witness: the runner exited after all eight stages were started, the
\* first and the fifth having failed.
C22_Witness ==
    /\ run_pc = "exited"
    /\ Cardinality(LogEvents("start")) = 8
    /\ \E k \in LogEvents("exit 1") : run_log[k].stage = "01_layer1_trends_analysis.py"
    /\ \E k \in LogEvents("exit 1") : run_log[k].stage = "05_synthesis_visualization.py"

\* a file read from data/processed was written before, by a stage with a
\* smaller number, in this run
ReadsFollowWrites ==
    \A k \in LogEvents("read") :
        \E m \in LogEvents("write") :
            /\ m < k
            /\ run_log[m].file = run_log[k].file
            /\ StageNumber(run_log[m].stage) < StageNumber(run_log[k].stage)
RobustnessReads ==
    {k \in LogEvents("read") : run_log[k].file = "robustness_checks.csv"}
RobustnessWrites ==
    {m \in LogEvents("write") : run_log[m].file = "robustness_checks.csv"}

CurrentRun == IF ld_pc = "exited" THEN runs_done - 1 ELSE runs_done
\* the cache files written by the runs before the current one
WrittenBefore == {w.file : w \in {x \in cache_writes : x.run < CurrentRun}}
\* the names {prefix}_YYYY-MM-DD.json of a directory with the latest date
MostRecentDated(files) ==
    LET dated == {n \in Glob(files) : IsoDateOf(n) # NotRun}
    IN  {n \in dated : \A o \in dated : ~StrLess(IsoDateOf(n)[1], IsoDateOf(o)[1])}

\* C23: once a run of the bibliometric loader has fetched the payload and
\* written it to a dated cache file, every later run finds that file, makes
\* no network call, and reads the cache file with the most recent date.
C23_LaterRunsUseCache ==
    (fetch_stage = "02" /\ WrittenBefore # {}) =>
        /\ WrittenBefore \subseteq cache_files
        /\ net_calls = 0
        /\ ld_pc = "loaded" =>
              /\ selected # NotRun
              /\ selected[1] \in MostRecentDated(cache_files)

\* a call that got no response, or a 4xx or 5xx status
FailedCall(status) ==
    status # NotRun /\ (status[1] = 0 \/ (400 <= status[1] /\ status[1] < 600))

\* C24: a network call that fails or is answered with a non-success status
\* writes no cache file and ends the stage with a non-zero exit status, and
\* the stage makes no further call once it has failed.
C24_FailedCallEndsStage ==
    [][/\ (net_calls' = net_calls + 1 /\ FailedCall(last_status')) =>
              /\ cache_files' = cache_files
              /\ country_cache' = country_cache
              /\ cache_writes' = cache_writes
              /\ ld_pc' = "exited"
              /\ stage_exit' # NotRun /\ stage_exit'[1] # 0
       /\ (ld_pc = "exited" /\ FailedCall(last_status)) =>
              (net_calls' = net_calls \/ (ld_pc' = "start" /\ net_calls' = 0))
      ]_vars

\* C24 witness: the second page request of stage 04 was answered with a
\* non-success status and the stage has exited with status 1.
C24_Witness ==
    /\ fetch_stage = "04" /\ ld_pc = "exited"
    /\ last_status # NotRun /\ last_status[1] >= 400
    /\ Len(requested) = 1 /\ net_calls = 2
    /\ country_cache = NotRun
    /\ stage_exit = Some(1)

\* the groups of the pages received, in the order received
RECURSIVE Concat(_)
Concat(pages) ==
    IF pages = << >> THEN << >>
    ELSE Head(pages).page_groups \o Concat(Tail(pages))
Collected(i) == Concat(SubSeq(requested, 1, i))
\* the i-th page received ends the paging: it is empty, or the groups
\* collected with it reach the total of its meta block (a meta block without
\* a total is read as reporting the page's own length)
Completes(i) ==
    \/ requested[i].page_groups = << >>
    \/ requested[i].meta = NotRun
    \/ Len(Collected(i)) >= requested[i].meta[1]
\* fetch_openalex_groupby has returned in this run
Returned == fetch_stage = "04" /\ requested # << >> /\ selected # NotRun
PagesInOrder ==
    fetch_stage = "04" =>
        /\ \A i \in DOMAIN requested : requested[i].page = i
        /\ \A i \in 1..(Len(requested) - 1) : ~Completes(i)
        /\ ld_pc = "paging" =>
              /\ page = Len(requested) + 1
              /\ groups = Collected(Len(requested))
              /\ requested # << >> => ~Completes(Len(requested))
        /\ Returned =>
              /\ Completes(Len(requested))
              /\ selected = Some(Collected(Len(requested)))

\* C27: fetch_openalex_groupby requests the pages 1, 2, 3, ... in order, each
\* once; it goes on exactly while the page received is not empty and the
\* groups collected are fewer than the total of the page's meta block; what it
\* returns is the concatenation of the pages received; and, the service
\* sending an empty page or enough groups in the end, it does not page for
\* ever.
C27_PagesInOrderUntilComplete ==
    /\ []PagesInOrder
    /\ (ld_pc = "paging") ~> (ld_pc # "paging")

\* C27 witness: three pages were requested, the third came back empty and
\* the groups of the first two were returned.
C27_Witness ==
    /\ Returned /\ Len(requested) = 3
    /\ requested[3].page_groups = << >>
    /\ Len(selected[1]) >= 2

====
